---- MODULE Spec2Model ----
(***************************************************************************)
(* Behaviour-tree runtime of bt-composition-prototype: the leaf nodes      *)
(* (GoToPose, MoveDistance, SetPen, GetPose, CheckBounds), the shared      *)
(* rosbridge connection of BaseActionNode, the composites built on         *)
(* py_trees Sequences, and the scheduler of execution/run_bt.py.           *)
(*                                                                         *)
(* Units: lengths in centimetres, linear velocity in cm/s, angles in       *)
(* milliradians, angular velocity in mrad/s.  math.sqrt is the integer     *)
(* square root (floor), so comparisons against integer thresholds are      *)
(* exact.                                                                  *)
(***************************************************************************)
EXTENDS Integers, Sequences, FiniteSets, TLC

VARIABLES nodes, conn, io, sched, hist

vars == <<nodes, conn, io, sched, hist>>

(***************************************************************************)
(* Bounds of the model.                                                    *)
(***************************************************************************)
\* max_ticks handed to execute_behavior_tree (main passes 1000)
MaxTicks == 6
\* failed Ros.run() attempts explored
MaxRunFail == 2
\* operations explored on the stand-alone nodes of SpecConn
MaxConnOps == 5
\* ticks explored on the stand-alone leaf of SpecLeaf
MaxLeafTicks == 3
\* setup and shutdown calls explored on the stand-alone leaf of SpecLeaf
MaxLeafOps == 3
\* _normalize_angle is applied to the angles -MaxAngle..MaxAngle (milliradians)
MaxAngle == 10000
\* the 2 s wait of SetPen.update, in sleep periods (200 of 0.01 s in the code)
MaxPenWait == 3
\* the updates of one SetPen that are followed step by step
MaxPenUpdates == 2
\* ticks explored on the composite of SpecComp
MaxCompTicks == 3
\* setup calls explored on the leaves of SpecComp
MaxCompOps == 3
\* the longest waypoint list handed to PatrolWaypoints in SpecBuild
MaxWaypoints == 3
\* calls explored on the ROSConnectionManager of SpecManager
MaxManagerOps == 5
\* pose messages delivered to the CheckBounds of SpecRace
MaxRaceMsgs == 3
\* ticks of the CheckBounds of SpecRace
MaxRaceTicks == 2

(***************************************************************************)
(* Program constants.                                                      *)
(***************************************************************************)
\* Python's None (start_x, target_theta, current_pose, _shared_ros)
None == -1000000
\* math.pi in milliradians
Pi == 3142
\* GoToPose defaults and control parameters
DefaultTolerancePos == 10
DefaultToleranceAngle == 100
LinearSpeedGain == 1
AngularSpeedGain == 2
MaxLinearSpeed == 200
MaxAngularSpeed == 2000
\* CheckBounds default spawn position 5.5
SpawnXY == 550

Abs(x) == IF x < 0 THEN -x ELSE x
Min(a, b) == IF a < b THEN a ELSE b
Max(a, b) == IF a > b THEN a ELSE b

RECURSIVE SqrtSearch(_, _, _)
SqrtSearch(n, lo, hi) ==
    IF lo >= hi THEN lo
    ELSE LET mid == (lo + hi + 1) \div 2
         IN IF mid * mid <= n THEN SqrtSearch(n, mid, hi)
            ELSE SqrtSearch(n, lo, mid - 1)

\* math.sqrt on the integer grid: the floor of the square root
Sqrt(n) == SqrtSearch(n, 0, 2048)

\* atan on [0, 1] (argument num/den), in milliradians
AtanUnit(num, den) ==
    LET t == (1000 * num) \div den
    IN (785 * t) \div 1000 + (273 * t * (1000 - t)) \div 1000000

\* math.atan2(dy, dx) in milliradians
Atan2(dy, dx) ==
    LET ax == Abs(dx)
        ay == Abs(dy)
        base == IF ax = 0 /\ ay = 0 THEN 0
                ELSE IF ax >= ay THEN AtanUnit(ay, ax)
                ELSE (Pi \div 2) - AtanUnit(ax, ay)
    IN IF dx >= 0 THEN (IF dy >= 0 THEN base ELSE -base)
       ELSE (IF dy >= 0 THEN Pi - base ELSE base - Pi)

Range(s) == {s[i] : i \in 1..Len(s)}

(***************************************************************************)
(* Constructors.                                                           *)
(***************************************************************************)
\* Every node starts with py_trees' status INVALID; BaseActionNode.__init__ sets
\* ros = None and ros_connected = False.
GoToPoseNew(x, y, theta) ==
    [kind |-> "GoToPose", status |-> "INVALID", ros |-> None, ros_connected |-> FALSE,
     target_x |-> x, target_y |-> y, target_theta |-> theta,
     tolerance_pos |-> DefaultTolerancePos, tolerance_angle |-> DefaultToleranceAngle,
     cmd_vel_pub |-> FALSE, pose_sub |-> FALSE,
     current_x |-> 0, current_y |-> 0, current_theta |-> 0]

MoveDistanceNew(distance, speed) ==
    [kind |-> "MoveDistance", status |-> "INVALID", ros |-> None, ros_connected |-> FALSE,
     distance |-> distance, speed |-> Abs(speed),
     cmd_vel_pub |-> FALSE, pose_sub |-> FALSE,
     current_x |-> 0, current_y |-> 0, current_theta |-> 0,
     start_x |-> None, start_y |-> None]

\* SetPen.__init__ storing its arguments as they come
SetPenNewUnclamped(r, g, b, width, off) ==
    [kind |-> "SetPen", status |-> "INVALID", ros |-> None, ros_connected |-> FALSE,
     r |-> r, g |-> g, b |-> b, width |-> width, off |-> off,
     set_pen_service |-> FALSE, pose_sub |-> FALSE]

SetPenNew(r, g, b, width, off) ==
    [kind |-> "SetPen", status |-> "INVALID", ros |-> None, ros_connected |-> FALSE,
     r |-> Max(0, Min(255, r)), g |-> Max(0, Min(255, g)), b |-> Max(0, Min(255, b)),
     width |-> Max(1, width), off |-> off,
     set_pen_service |-> FALSE, pose_sub |-> FALSE]

GetPoseNew(key) ==
    [kind |-> "GetPose", status |-> "INVALID", ros |-> None, ros_connected |-> FALSE,
     blackboard_key |-> key, pose_sub |-> FALSE,
     current_pose |-> <<>>, pose_received |-> FALSE]

CheckBoundsNew(min_x, max_x, min_y, max_y) ==
    [kind |-> "CheckBounds", status |-> "INVALID", ros |-> None, ros_connected |-> FALSE,
     min_x |-> min_x, max_x |-> max_x, min_y |-> min_y, max_y |-> max_y,
     pose_sub |-> FALSE, current_x |-> SpawnXY, current_y |-> SpawnXY,
     pose_received |-> FALSE]

\* py_trees.composites.Sequence(name, memory): children are node ids
SequenceNew(memory, children) ==
    [kind |-> "Sequence", status |-> "INVALID", memory |-> memory,
     children |-> children, current_child |-> 0, pose_sub |-> FALSE]

\* py_trees.composites.Selector(name, memory)
SelectorNew(memory, children) ==
    [kind |-> "Selector", status |-> "INVALID", memory |-> memory,
     children |-> children, current_child |-> 0, pose_sub |-> FALSE]

\* the classes of py_trees.composites
Composites == {"Sequence", "Selector"}

(***************************************************************************)
(* The program state as one record, threaded through the operations: the   *)
(* nodes, the class-level shared connection (conn), the effects on the     *)
(* outside (io: commands published, service requests, blackboard) and the  *)
(* history the properties read (hist).  ok and status carry an operation's *)
(* return value.                                                           *)
(***************************************************************************)
World == [nodes |-> nodes, conn |-> conn, io |-> io, hist |-> hist,
          ok |-> TRUE, status |-> "INVALID"]

Commit(w) ==
    /\ nodes' = w.nodes
    /\ conn' = w.conn
    /\ io' = w.io
    /\ hist' = w.hist

\* class attributes _shared_ros and _ros_running, and the handle(s) behind them
ConnInit ==
    [shared_ros |-> None, ros_running |-> FALSE,
     created |-> 0, run_calls |-> 0, run_failed |-> 0, started |-> {},
     terminate_calls |-> 0, terminated |-> {}]

Keys == {"current_pose", "start_pose"}

IoInit ==
    [published |-> <<>>, requests |-> <<>>, bb_writes |-> <<>>, visited |-> <<>>,
     updated |-> <<>>, cmd_vel |-> <<>>, pose |-> <<>>,
     blackboard |-> [k \in Keys |-> <<>>]]

HistInit(ids) ==
    [setup_calls |-> [n \in ids |-> 0], shutdown_calls |-> [n \in ids |-> 0],
     init_count |-> [n \in ids |-> 0], term_count |-> [n \in ids |-> 0],
     last_pub |-> [n \in ids |-> <<>>], last_msg |-> [n \in ids |-> <<>>],
     init_msg |-> [n \in ids |-> <<>>], disp |-> [n \in ids |-> <<>>],
     first_terminate_at |-> <<>>, root_trace |-> <<>>, cue |-> 0]

\* the effects of one operation start from a clean slate
Fresh(w) ==
    [w EXCEPT !.io.published = <<>>, !.io.requests = <<>>, !.io.bb_writes = <<>>,
              !.io.visited = <<>>, !.io.updated = <<>>]

(***************************************************************************)
(* BaseActionNode.                                                         *)
(***************************************************************************)
\* the class-level handle is created only when there is none yet
SharedRosAlways(c) ==
    [c EXCEPT !.created = @ + 1, !.shared_ros = c.created + 1]

SharedRos(c) ==
    IF c.shared_ros = None
    THEN [c EXCEPT !.created = @ + 1, !.shared_ros = c.created + 1]
    ELSE c

\* BaseActionNode.setup; run_ok: whether Ros.run() returns (else it raises)
BaseSetup(w, n, run_ok) ==
    LET c1 == SharedRos(w.conn)
        h == c1.shared_ros
    IN IF ~c1.ros_running
       THEN IF run_ok
            THEN [w EXCEPT !.conn = [c1 EXCEPT !.run_calls = @ + 1,
                                               !.started = @ \cup {h},
                                               !.ros_running = TRUE],
                           !.nodes[n].ros = h,
                           !.nodes[n].ros_connected = TRUE,
                           !.ok = TRUE]
            ELSE [w EXCEPT !.conn = [c1 EXCEPT !.run_calls = @ + 1,
                                               !.run_failed = @ + 1],
                           !.nodes[n].ros = h,
                           !.nodes[n].ros_connected = FALSE,
                           !.ok = FALSE]
       ELSE [w EXCEPT !.conn = c1,
                      !.nodes[n].ros = h,
                      !.nodes[n].ros_connected = TRUE,
                      !.ok = TRUE]

\* BaseActionNode.shutdown.  term_raises: Ros.terminate() on a handle that was
\* terminated before raises (else it does nothing), as the transport library
\* has it.
BaseShutdown(w, n, term_raises) ==
    LET nd == w.nodes[n]
    IN IF nd.ros # None /\ nd.ros_connected
       THEN LET raises == term_raises /\ nd.ros \in w.conn.terminated
                w1 == [w EXCEPT !.conn.terminate_calls = @ + 1,
                                !.conn.terminated = @ \cup {nd.ros},
                                !.hist.first_terminate_at =
                                    IF @ = <<>> THEN <<w.hist.shutdown_calls>> ELSE @]
            IN IF raises THEN w1
               ELSE [w1 EXCEPT !.nodes[n].ros_connected = FALSE]
       ELSE w

\* _publish_velocity of GoToPose and MoveDistance; phase names the lifecycle
\* method the call comes from
PublishVelocity(w, n, linear, angular, phase) ==
    IF w.nodes[n].cmd_vel_pub
    THEN LET m == [node |-> n, phase |-> phase,
                   linear |-> <<linear, 0, 0>>, angular |-> <<0, 0, angular>>]
         IN [w EXCEPT !.io.published = Append(@, m),
                      !.io.cmd_vel = <<linear, angular>>,
                      !.hist.last_pub[n] = <<phase, linear, angular>>]
    ELSE w

\* _stop_turtle publishing nothing
StopTurtleSkipped(w, n, phase) == w

StopTurtle(w, n, phase) == PublishVelocity(w, n, 0, 0, phase)

(***************************************************************************)
(* setup, per node type.                                                   *)
(***************************************************************************)
GoToPoseSetup(w, n, run_ok) ==
    LET w1 == BaseSetup(w, n, run_ok)
    IN IF ~w1.ok THEN w1
       ELSE [w1 EXCEPT !.nodes[n].cmd_vel_pub = TRUE, !.nodes[n].pose_sub = TRUE]

MoveDistanceSetup(w, n, run_ok) ==
    LET w1 == BaseSetup(w, n, run_ok)
    IN IF ~w1.ok THEN w1
       ELSE [w1 EXCEPT !.nodes[n].cmd_vel_pub = TRUE, !.nodes[n].pose_sub = TRUE]

SetPenSetup(w, n, run_ok) ==
    LET w1 == BaseSetup(w, n, run_ok)
    IN IF ~w1.ok THEN w1
       ELSE [w1 EXCEPT !.nodes[n].set_pen_service = TRUE]

GetPoseSetup(w, n, run_ok) ==
    LET w1 == BaseSetup(w, n, run_ok)
    IN IF ~w1.ok THEN w1
       ELSE [w1 EXCEPT !.nodes[n].pose_sub = TRUE]

CheckBoundsSetup(w, n, run_ok) ==
    LET w1 == BaseSetup(w, n, run_ok)
    IN IF ~w1.ok THEN w1
       ELSE [w1 EXCEPT !.nodes[n].pose_sub = TRUE]

\* node.setup() as setup_behavior_tree calls it; a Sequence inherits the empty
\* setup of py_trees, whose result (None) is not False
NodeSetup(w, n, run_ok) ==
    LET k == w.nodes[n].kind
        w0 == [w EXCEPT !.hist.setup_calls[n] = @ + 1, !.ok = TRUE]
    IN CASE k = "GoToPose" -> GoToPoseSetup(w0, n, run_ok)
         [] k = "MoveDistance" -> MoveDistanceSetup(w0, n, run_ok)
         [] k = "SetPen" -> SetPenSetup(w0, n, run_ok)
         [] k = "GetPose" -> GetPoseSetup(w0, n, run_ok)
         [] k = "CheckBounds" -> CheckBoundsSetup(w0, n, run_ok)
         [] OTHER -> w0

\* node.shutdown(): no leaf overrides BaseActionNode.shutdown; a Sequence
\* inherits the empty shutdown of py_trees
NodeShutdown(w, n, term_raises) ==
    LET w0 == [w EXCEPT !.hist.shutdown_calls[n] = @ + 1]
    IN IF w.nodes[n].kind \in Composites THEN w0
       ELSE BaseShutdown(w0, n, term_raises)

(***************************************************************************)
(* _pose_callback, per node type: msg is a /turtle1/pose message.          *)
(***************************************************************************)
\* GoToPose._pose_callback taking the reported position for its target as well
GoToPoseCallbackRetargets(nd, msg) ==
    [nd EXCEPT !.current_x = msg.x, !.current_y = msg.y, !.current_theta = msg.theta,
               !.target_x = msg.x, !.target_y = msg.y]

GoToPoseCallback(nd, msg) ==
    [nd EXCEPT !.current_x = msg.x, !.current_y = msg.y, !.current_theta = msg.theta]

MoveDistanceCallback(nd, msg) ==
    [nd EXCEPT !.current_x = msg.x, !.current_y = msg.y, !.current_theta = msg.theta]

GetPoseCallback(nd, msg) ==
    [nd EXCEPT !.current_pose = <<[x |-> msg.x, y |-> msg.y, theta |-> msg.theta,
                                   linear_velocity |-> 0, angular_velocity |-> 0]>>,
               !.pose_received = TRUE]

CheckBoundsCallback(nd, msg) ==
    [nd EXCEPT !.current_x = msg.x, !.current_y = msg.y, !.pose_received = TRUE]

PoseCallback(nd, msg) ==
    CASE nd.kind = "GoToPose" -> GoToPoseCallback(nd, msg)
      [] nd.kind = "MoveDistance" -> MoveDistanceCallback(nd, msg)
      [] nd.kind = "GetPose" -> GetPoseCallback(nd, msg)
      [] nd.kind = "CheckBounds" -> CheckBoundsCallback(nd, msg)
      [] OTHER -> nd

\* one message of the pose topic reaches the callback of every subscribed node
Deliver(w, msg) ==
    [w EXCEPT !.nodes = [n \in DOMAIN w.nodes |->
                            IF w.nodes[n].pose_sub THEN PoseCallback(w.nodes[n], msg)
                            ELSE w.nodes[n]],
              !.hist.last_msg = [n \in DOMAIN w.nodes |->
                            IF w.nodes[n].pose_sub
                            THEN <<msg>>
                            ELSE w.hist.last_msg[n]],
              !.io.pose = <<msg>>]

(***************************************************************************)
(* initialise, per node type.                                              *)
(***************************************************************************)
\* MoveDistance.initialise keeping a start reference that is already set
MoveDistanceInitialiseStale(nd) ==
    IF nd.start_x = None
    THEN [nd EXCEPT !.start_x = nd.current_x, !.start_y = nd.current_y]
    ELSE nd

MoveDistanceInitialise(nd) ==
    [nd EXCEPT !.start_x = nd.current_x, !.start_y = nd.current_y]

GetPoseInitialise(nd) == [nd EXCEPT !.pose_received = FALSE]

CheckBoundsInitialise(nd) == [nd EXCEPT !.pose_received = FALSE]

NodeInitialise(w, n) ==
    LET nd == w.nodes[n]
        w0 == [w EXCEPT !.hist.init_count[n] = @ + 1]
    IN CASE nd.kind = "MoveDistance" ->
               [w0 EXCEPT !.nodes[n] = MoveDistanceInitialise(nd),
                          !.hist.init_msg[n] = w.hist.last_msg[n]]
         [] nd.kind = "GetPose" -> [w0 EXCEPT !.nodes[n] = GetPoseInitialise(nd)]
         [] nd.kind = "CheckBounds" ->
               [w0 EXCEPT !.nodes[n] = CheckBoundsInitialise(nd)]
         [] OTHER -> w0

(***************************************************************************)
(* update, per node type.                                                  *)
(***************************************************************************)
RECURSIVE NormalizeDown(_)
NormalizeDown(angle) ==
    IF angle > Pi THEN NormalizeDown(angle - 2 * Pi) ELSE angle

RECURSIVE NormalizeUp(_)
NormalizeUp(angle) ==
    IF angle < -Pi THEN NormalizeUp(angle + 2 * Pi) ELSE angle

\* GoToPose._normalize_angle: the two while loops, one after the other
NormalizeAngle(angle) == NormalizeUp(NormalizeDown(angle))

\* the angular velocity passed on without the clamp
ClampOff(v, limit) == v

Clamp(v, limit) == Max(Min(v, limit), -limit)

\* _rotate_to_angle creeping forward at half the speed limit while it turns
RotateToAngleDriving(w, n, angle_error) ==
    PublishVelocity(w, n, MaxLinearSpeed \div 2,
                    Clamp(AngularSpeedGain * angle_error, MaxAngularSpeed), "update")

\* GoToPose._rotate_to_angle
RotateToAngle(w, n, angle_error) ==
    PublishVelocity(w, n, 0, Clamp(AngularSpeedGain * angle_error, MaxAngularSpeed),
                    "update")

GoToPoseUpdate(w, n) ==
    LET nd == w.nodes[n]
        dx == nd.target_x - nd.current_x
        dy == nd.target_y - nd.current_y
        distance == Sqrt(dx * dx + dy * dy)
    IN IF ~nd.ros_connected THEN [w EXCEPT !.status = "FAILURE"]
       ELSE IF distance < nd.tolerance_pos
       THEN IF nd.target_theta # None
            THEN LET angle_error == NormalizeAngle(nd.target_theta - nd.current_theta)
                 IN IF Abs(angle_error) < nd.tolerance_angle
                    THEN [StopTurtle(w, n, "update") EXCEPT !.status = "SUCCESS"]
                    ELSE [RotateToAngle(w, n, angle_error) EXCEPT !.status = "RUNNING"]
            ELSE [StopTurtle(w, n, "update") EXCEPT !.status = "SUCCESS"]
       ELSE LET angle_to_target == Atan2(dy, dx)
                angle_error == NormalizeAngle(angle_to_target - nd.current_theta)
            IN IF Abs(angle_error) > Pi \div 2
               THEN [RotateToAngle(w, n, angle_error) EXCEPT !.status = "RUNNING"]
               ELSE LET linear_vel == Min(LinearSpeedGain * distance, MaxLinearSpeed)
                        angular_vel == Clamp(AngularSpeedGain * angle_error,
                                             MaxAngularSpeed)
                    IN [PublishVelocity(w, n, linear_vel, angular_vel, "update")
                          EXCEPT !.status = "RUNNING"]

\* MoveDistance.update with the comparison of the displacement turned around
MoveDistanceUpdateStrict(w, n) ==
    LET nd == w.nodes[n]
    IN IF ~nd.ros_connected THEN [w EXCEPT !.status = "FAILURE"]
       ELSE IF nd.start_x = None \/ nd.start_y = None
       THEN [w EXCEPT !.status = "FAILURE"]
       ELSE LET dx == nd.current_x - nd.start_x
                dy == nd.current_y - nd.start_y
                distance_traveled == Sqrt(dx * dx + dy * dy)
                w1 == [w EXCEPT !.hist.disp[n] =
                          <<[activation |-> w.hist.init_count[n],
                             from |-> <<nd.start_x, nd.start_y>>,
                             to |-> <<nd.current_x, nd.current_y>>,
                             value |-> distance_traveled]>>]
            IN IF distance_traveled > Abs(nd.distance)
               THEN [StopTurtle(w1, n, "update") EXCEPT !.status = "SUCCESS"]
               ELSE LET linear_vel == IF nd.distance > 0 THEN nd.speed ELSE -nd.speed
                    IN [PublishVelocity(w1, n, linear_vel, 0, "update")
                          EXCEPT !.status = "RUNNING"]

MoveDistanceUpdate(w, n) ==
    LET nd == w.nodes[n]
    IN IF ~nd.ros_connected THEN [w EXCEPT !.status = "FAILURE"]
       ELSE IF nd.start_x = None \/ nd.start_y = None
       THEN [w EXCEPT !.status = "FAILURE"]
       ELSE LET dx == nd.current_x - nd.start_x
                dy == nd.current_y - nd.start_y
                distance_traveled == Sqrt(dx * dx + dy * dy)
                w1 == [w EXCEPT !.hist.disp[n] =
                          <<[activation |-> w.hist.init_count[n],
                             from |-> <<nd.start_x, nd.start_y>>,
                             to |-> <<nd.current_x, nd.current_y>>,
                             value |-> distance_traveled]>>]
            IN IF distance_traveled >= Abs(nd.distance)
               THEN [StopTurtle(w1, n, "update") EXCEPT !.status = "SUCCESS"]
               ELSE LET linear_vel == IF nd.distance > 0 THEN nd.speed ELSE -nd.speed
                    IN [PublishVelocity(w1, n, linear_vel, 0, "update")
                          EXCEPT !.status = "RUNNING"]

\* what can become of one set_pen call within the 2 s wait
PenOutcomes == {"success", "error", "timeout", "raise"}

\* SetPen.update; pen: the success callback fires in time, the error callback
\* fires in time, neither does, or the service call itself raises
SetPenUpdate(w, n, pen) ==
    LET nd == w.nodes[n]
        request == [node |-> n, r |-> nd.r, g |-> nd.g, b |-> nd.b,
                    width |-> nd.width, off |-> nd.off]
    IN IF ~nd.ros_connected THEN [w EXCEPT !.status = "FAILURE"]
       ELSE IF ~nd.set_pen_service \/ pen = "raise"
       THEN [w EXCEPT !.status = "FAILURE"]
       ELSE [w EXCEPT !.io.requests = Append(@, request),
                      !.status = IF pen = "success" THEN "SUCCESS" ELSE "FAILURE"]

\* GetPose.update writing under the default key whatever key was chosen
GetPoseUpdateDefaultKey(w, n) ==
    LET nd == w.nodes[n]
    IN IF ~nd.ros_connected THEN [w EXCEPT !.status = "FAILURE"]
       ELSE IF nd.pose_received /\ nd.current_pose # <<>>
       THEN [w EXCEPT !.io.blackboard["current_pose"] = nd.current_pose,
                      !.io.bb_writes = Append(@, [node |-> n, key |-> "current_pose",
                                                  value |-> nd.current_pose[1]]),
                      !.status = "SUCCESS"]
       ELSE [w EXCEPT !.status = "RUNNING"]

GetPoseUpdate(w, n) ==
    LET nd == w.nodes[n]
    IN IF ~nd.ros_connected THEN [w EXCEPT !.status = "FAILURE"]
       ELSE IF nd.pose_received /\ nd.current_pose # <<>>
       THEN [w EXCEPT !.io.blackboard[nd.blackboard_key] = nd.current_pose,
                      !.io.bb_writes = Append(@, [node |-> n, key |-> nd.blackboard_key,
                                                  value |-> nd.current_pose[1]]),
                      !.status = "SUCCESS"]
       ELSE [w EXCEPT !.status = "RUNNING"]

CheckBoundsUpdate(w, n) ==
    LET nd == w.nodes[n]
        in_bounds == /\ nd.min_x <= nd.current_x /\ nd.current_x <= nd.max_x
                     /\ nd.min_y <= nd.current_y /\ nd.current_y <= nd.max_y
    IN IF ~nd.ros_connected THEN [w EXCEPT !.status = "FAILURE"]
       ELSE IF ~nd.pose_received THEN [w EXCEPT !.status = "RUNNING"]
       ELSE IF in_bounds THEN [w EXCEPT !.status = "SUCCESS"]
       ELSE [w EXCEPT !.status = "FAILURE"]

\* the update of a node that skips the readiness check and acts as if connected
NodeUpdateUnchecked(w, n, pen) ==
    LET k == w.nodes[n].kind
        wc == [w EXCEPT !.nodes[n].ros_connected = TRUE]
        w1 == CASE k = "GoToPose" -> GoToPoseUpdate(wc, n)
                [] k = "MoveDistance" -> MoveDistanceUpdate(wc, n)
                [] k = "SetPen" -> SetPenUpdate(wc, n, pen)
                [] k = "GetPose" -> GetPoseUpdate(wc, n)
                [] k = "CheckBounds" -> CheckBoundsUpdate(wc, n)
    IN [w1 EXCEPT !.nodes[n].ros_connected = w.nodes[n].ros_connected]

\* node.update(), dispatched on the node's class
NodeUpdate(w, n, pen) ==
    LET k == w.nodes[n].kind
    IN CASE k = "GoToPose" -> GoToPoseUpdate(w, n)
         [] k = "MoveDistance" -> MoveDistanceUpdate(w, n)
         [] k = "SetPen" -> SetPenUpdate(w, n, pen)
         [] k = "GetPose" -> GetPoseUpdate(w, n)
         [] k = "CheckBounds" -> CheckBoundsUpdate(w, n)

(***************************************************************************)
(* terminate, per node type.                                               *)
(***************************************************************************)
NodeTerminate(w, n, new_status) ==
    LET k == w.nodes[n].kind
        w0 == [w EXCEPT !.hist.term_count[n] = @ + 1]
    IN IF k \in {"GoToPose", "MoveDistance"} THEN StopTurtle(w0, n, "terminate")
       ELSE w0

(***************************************************************************)
(* py_trees: Behaviour.tick and stop, Sequence.tick, Composite.stop and    *)
(* iterate.  The library is consumed, not part of the repository; these    *)
(* follow the contract of the node model (initialise before the first      *)
(* update of an activation, terminate when the status leaves RUNNING) and  *)
(* of the Sequence with and without memory.                                *)
(***************************************************************************)
\* Behaviour.tick of a leaf.  io.updated keeps, for each update of the tick, its
\* result, whether the node was connected and the effects the update itself had.
BehaviourTick(w, n, pen) ==
    LET w1 == IF w.nodes[n].status # "RUNNING" THEN NodeInitialise(w, n) ELSE w
        w2 == NodeUpdate(w1, n, pen)
        new_status == w2.status
        entry == [node |-> n, status |-> new_status,
                  connected |-> w1.nodes[n].ros_connected,
                  msg |-> w1.hist.last_msg[n],
                  published |-> Len(w2.io.published) - Len(w1.io.published),
                  requests |-> Len(w2.io.requests) - Len(w1.io.requests),
                  bb_writes |-> Len(w2.io.bb_writes) - Len(w1.io.bb_writes),
                  fresh |-> w.nodes[n].status # "RUNNING"]
        w3 == [w2 EXCEPT !.io.updated = Append(@, entry)]
        w4 == IF new_status # "RUNNING" THEN NodeTerminate(w3, n, new_status) ELSE w3
    IN [w4 EXCEPT !.nodes[n].status = new_status,
                  !.io.visited = Append(@, n),
                  !.status = new_status]

RECURSIVE StopNode(_, _)
RECURSIVE StopChildren(_, _, _)

\* stop(INVALID) on every child from index i on whose status is not INVALID
StopChildren(w, n, i) ==
    LET cs == w.nodes[n].children
    IN IF i > Len(cs) THEN w
       ELSE IF w.nodes[cs[i]].status # "INVALID"
       THEN StopChildren(StopNode(w, cs[i]), n, i + 1)
       ELSE StopChildren(w, n, i + 1)

\* stop(INVALID): a composite first stops its children, a leaf terminates
StopNode(w, n) ==
    IF w.nodes[n].kind \in Composites
    THEN LET w1 == StopChildren([w EXCEPT !.nodes[n].current_child = 0], n, 1)
         IN [w1 EXCEPT !.nodes[n].status = "INVALID"]
    ELSE [NodeTerminate(w, n, "INVALID") EXCEPT !.nodes[n].status = "INVALID"]

RECURSIVE TickNode(_, _, _)
RECURSIVE TickChildren(_, _, _, _)

\* the loop of Sequence.tick over the children from index i on
TickChildren(w, n, i, pen) ==
    LET nd == w.nodes[n]
        cs == nd.children
        w1 == TickNode(w, cs[i], pen)
        st == w1.nodes[cs[i]].status
    IN IF st # "SUCCESS"
       THEN LET w2 == IF ~nd.memory THEN StopChildren(w1, n, i + 1) ELSE w1
            IN [w2 EXCEPT !.nodes[n].status = st,
                          !.io.visited = Append(@, n),
                          !.status = st]
       ELSE IF i < Len(cs)
       THEN TickChildren([w1 EXCEPT !.nodes[n].current_child = i + 1], n, i + 1, pen)
       ELSE [w1 EXCEPT !.nodes[n].status = "SUCCESS",
                       !.io.visited = Append(@, n),
                       !.status = "SUCCESS"]

\* Sequence.tick resuming at the cursor whether the sequence has memory or not
SequenceTickResuming(w, n, pen) ==
    LET nd == w.nodes[n]
        cs == nd.children
        w1 == IF nd.status # "RUNNING"
              THEN StopChildren([w EXCEPT !.nodes[n].current_child =
                                              IF cs = <<>> THEN 0 ELSE 1], n, 1)
              ELSE w
    IN IF cs = <<>>
       THEN [w1 EXCEPT !.nodes[n].status = "SUCCESS",
                       !.io.visited = Append(@, n),
                       !.status = "SUCCESS"]
       ELSE TickChildren(w1, n, w1.nodes[n].current_child, pen)

\* Sequence.tick: where the sequence starts this tick
SequenceTick(w, n, pen) ==
    LET nd == w.nodes[n]
        cs == nd.children
        entering == nd.status # "RUNNING"
        w1 == IF entering
              THEN StopChildren([w EXCEPT !.nodes[n].current_child =
                                              IF cs = <<>> THEN 0 ELSE 1], n, 1)
              ELSE IF ~nd.memory
              THEN [w EXCEPT !.nodes[n].current_child = IF cs = <<>> THEN 0 ELSE 1]
              ELSE w
        index == w1.nodes[n].current_child
    IN IF cs = <<>>
       THEN [w1 EXCEPT !.nodes[n].status = "SUCCESS",
                       !.io.visited = Append(@, n),
                       !.status = "SUCCESS"]
       ELSE TickChildren(w1, n, index, pen)

RECURSIVE SelectChildren(_, _, _, _)

\* stop(INVALID) on the children before index i whose status is not INVALID
StopBefore(w, n, i) ==
    LET cs == w.nodes[n].children
        nodes_before == [w EXCEPT !.nodes[n].children = SubSeq(cs, 1, i - 1)]
    IN [StopChildren(nodes_before, n, 1) EXCEPT !.nodes[n].children = cs]

\* the loop of Selector.tick that stops at the first child, whatever it returns
SelectChildrenFirstOnly(w, n, i, pen) ==
    LET cs == w.nodes[n].children
        w1 == TickNode(w, cs[i], pen)
        st == w1.nodes[cs[i]].status
    IN [w1 EXCEPT !.nodes[n].status = st,
                  !.nodes[n].current_child = i,
                  !.io.visited = Append(@, n),
                  !.status = st]

\* the loop of Selector.tick over the children from index i on: a child that
\* is RUNNING or SUCCESS ends it (and the children after it are invalidated
\* when the cursor moved), a FAILURE goes on to the next child
SelectChildren(w, n, i, pen) ==
    LET nd == w.nodes[n]
        cs == nd.children
        w1 == TickNode(w, cs[i], pen)
        st == w1.nodes[cs[i]].status
    IN IF st \in {"RUNNING", "SUCCESS"}
       THEN LET w2 == IF nd.current_child # i THEN StopChildren(w1, n, i + 1) ELSE w1
            IN [w2 EXCEPT !.nodes[n].status = st,
                          !.nodes[n].current_child = i,
                          !.io.visited = Append(@, n),
                          !.status = st]
       ELSE IF i < Len(cs)
       THEN SelectChildren(w1, n, i + 1, pen)
       ELSE [w1 EXCEPT !.nodes[n].status = "FAILURE",
                       !.nodes[n].current_child = Len(cs),
                       !.io.visited = Append(@, n),
                       !.status = "FAILURE"]

\* Selector.tick: where the selector starts this tick
SelectorTick(w, n, pen) ==
    LET nd == w.nodes[n]
        cs == nd.children
        entering == nd.status # "RUNNING"
        w1 == IF entering
              THEN StopChildren([w EXCEPT !.nodes[n].current_child =
                                              IF cs = <<>> THEN 0 ELSE 1], n, 1)
              ELSE w
        index == IF nd.memory THEN w1.nodes[n].current_child ELSE 1
        w2 == IF nd.memory THEN StopBefore(w1, n, index) ELSE w1
    IN IF cs = <<>>
       THEN [w1 EXCEPT !.nodes[n].status = "FAILURE",
                       !.io.visited = Append(@, n),
                       !.status = "FAILURE"]
       ELSE SelectChildren(w2, n, index, pen)

TickNode(w, n, pen) ==
    CASE w.nodes[n].kind = "Sequence" -> SequenceTick(w, n, pen)
      [] w.nodes[n].kind = "Selector" -> SelectorTick(w, n, pen)
      [] OTHER -> BehaviourTick(w, n, pen)

RECURSIVE Iterate(_, _)
RECURSIVE IterateChildren(_, _, _)

IterateChildren(ns, n, i) ==
    IF i > Len(ns[n].children) THEN <<>>
    ELSE Iterate(ns, ns[n].children[i]) \o IterateChildren(ns, n, i + 1)

\* Behaviour.iterate(): the descendants, children first, and then the node itself
Iterate(ns, n) ==
    IF ns[n].kind \in Composites THEN Append(IterateChildren(ns, n, 1), n)
    ELSE <<n>>

(***************************************************************************)
(* The trees: bt_library/manual_examples and the composites.               *)
(***************************************************************************)
\* draw_square.create_root with the root built without memory
DrawSquareMemoryOff == FALSE

DrawSquareMemory == TRUE

PatrolMissionMemory == TRUE

PatrolWaypointsMemory == TRUE

DrawShapeMemory == TRUE

\* a function on 1..Len(s) + 1: node 1 is root, nodes 2.. are the records of s
WithRoot(root, s) ==
    [i \in 1..(Len(s) + 1) |-> IF i = 1 THEN root ELSE s[i - 1]]

Ids(first, count) == [i \in 1..count |-> first + i - 1]

\* draw_square.create_root: SetPen and the five corners under one Sequence
DrawSquareTree ==
    LET leaves == << SetPenNew(255, 0, 0, 3, 0),
                     GoToPoseNew(300, 300, 0),
                     GoToPoseNew(500, 300, 0),
                     GoToPoseNew(500, 500, 0),
                     GoToPoseNew(300, 500, 0),
                     GoToPoseNew(300, 300, 0) >>
    IN WithRoot(SequenceNew(DrawSquareMemory, Ids(2, Len(leaves))), leaves)

\* the GoToPose of one waypoint with its theta dropped
WaypointNodeNoTheta(waypoint) == GoToPoseNew(waypoint[1], waypoint[2], None)

\* the GoToPose of one waypoint, (x, y) or (x, y, theta)
WaypointNode(waypoint) ==
    IF Len(waypoint) = 2 THEN GoToPoseNew(waypoint[1], waypoint[2], None)
    ELSE GoToPoseNew(waypoint[1], waypoint[2], waypoint[3])

\* PatrolWaypoints._build_patrol: the children, in order
BuildPatrol(waypoints, loop) ==
    LET gotos == [i \in 1..Len(waypoints) |-> WaypointNode(waypoints[i])]
    IN IF loop /\ Len(waypoints) > 0
       THEN Append(gotos, WaypointNode(waypoints[1]))
       ELSE gotos

\* patrol_waypoints.create_root with the patrol as the first child of the root
PatrolMissionTreePatrolFirst ==
    LET waypoints == << <<300, 300>>, <<800, 300>>, <<800, 800>>, <<300, 800>> >>
        gotos == BuildPatrol(waypoints, TRUE)
        patrol == SequenceNew(PatrolWaypointsMemory, Ids(5, Len(gotos)))
        top == << GetPoseNew("start_pose"),
                  CheckBoundsNew(100, 1000, 100, 1000),
                  patrol >>
    IN WithRoot(SequenceNew(PatrolMissionMemory, <<4, 2, 3>>), top \o gotos)

\* patrol_waypoints.create_root: GetPose, CheckBounds and the patrol (node 4,
\* its waypoints are the nodes 5..)
PatrolMissionTree ==
    LET waypoints == << <<300, 300>>, <<800, 300>>, <<800, 800>>, <<300, 800>> >>
        gotos == BuildPatrol(waypoints, TRUE)
        patrol == SequenceNew(PatrolWaypointsMemory, Ids(5, Len(gotos)))
        top == << GetPoseNew("start_pose"),
                  CheckBoundsNew(100, 1000, 100, 1000),
                  patrol >>
    IN WithRoot(SequenceNew(PatrolMissionMemory, <<2, 3, 4>>), top \o gotos)

\* DrawShape._generate_square_waypoints
SquareWaypoints(size, center_x, center_y) ==
    LET half_size == size \div 2
    IN << <<center_x - half_size, center_y - half_size>>,
          <<center_x + half_size, center_y - half_size>>,
          <<center_x + half_size, center_y + half_size>>,
          <<center_x - half_size, center_y + half_size>>,
          <<center_x - half_size, center_y - half_size>> >>

\* DrawShape("square", size 2 around (4, 4), white pen of width 3) as the root
DrawShapeTree ==
    LET waypoints == SquareWaypoints(200, 400, 400)
        gotos == [i \in 1..Len(waypoints) |->
                     GoToPoseNew(waypoints[i][1], waypoints[i][2], None)]
        leaves == <<SetPenNew(255, 255, 255, 3, 0)>> \o gotos
    IN WithRoot(SequenceNew(DrawShapeMemory, Ids(2, Len(leaves))), leaves)

Trees == {"DrawSquare", "PatrolMission", "DrawShape"}

TreeOf(t) ==
    CASE t = "DrawSquare" -> DrawSquareTree
      [] t = "PatrolMission" -> PatrolMissionTree
      [] t = "DrawShape" -> DrawShapeTree

Msg(x, y, theta) == [x |-> x, y |-> y, theta |-> theta]

\* the pose messages fed to each tree: at its targets facing east, for the
\* square also at the first corner facing north, for the patrol also at a
\* position outside the bounds
MsgsOf(t) ==
    CASE t = "DrawSquare" ->
            {Msg(p[1], p[2], 0) : p \in {<<300, 300>>, <<500, 300>>, <<500, 500>>,
                                         <<300, 500>>}} \cup {Msg(300, 300, 1571)}
      [] t = "PatrolMission" ->
            {Msg(p[1], p[2], 0) : p \in {<<300, 300>>, <<800, 300>>, <<800, 800>>,
                                         <<300, 800>>, <<50, 300>>}}
      [] t = "DrawShape" ->
            {Msg(p[1], p[2], 0) : p \in {<<300, 300>>, <<500, 300>>, <<500, 500>>,
                                         <<300, 500>>}}
      [] OTHER -> {}

(***************************************************************************)
(* execution/run_bt.py: main.                                              *)
(***************************************************************************)
SchedInit ==
    [pc |-> "load", tree |-> "none", order |-> <<>>, idx |-> 0,
     tick_count |-> 0, last_status |-> "None", result |-> "none",
     exit_code |-> None, ops |-> 0]

Init ==
    /\ nodes = <<>>
    /\ conn = ConnInit
    /\ io = IoInit
    /\ hist = HistInit({})
    /\ sched = SchedInit

\* nodes = [root] + [child for child in root.iterate()]
NodeList(ns) == <<1>> \o Iterate(ns, 1)

\* load_bt_module and create_root succeed and return tree t
Load(t) ==
    /\ sched.pc = "load"
    /\ nodes' = TreeOf(t)
    /\ hist' = HistInit(DOMAIN TreeOf(t))
    /\ sched' = [sched EXCEPT !.pc = "setup", !.tree = t,
                              !.order = NodeList(TreeOf(t)), !.idx = 1]
    /\ UNCHANGED <<conn, io>>

\* the ways main ends before create_root has returned: load_bt_module returns
\* None, the module has no create_root, create_root (or the use of root.name
\* that follows it) raises
LoadFailures == {"load_failed", "no_create_root", "create_failed"}

LoadFail(how) ==
    /\ sched.pc = "load"
    /\ sched' = [sched EXCEPT !.pc = "done", !.result = how, !.exit_code = 1]
    /\ UNCHANGED <<nodes, conn, io, hist>>

\* create_root returns an object that is not a node.  stage: where main trips
\* over it: at root.name ("create"), at root.iterate() in setup_behavior_tree
\* ("setup"), or, for an object that has both, at the construction of the
\* BehaviourTree in execute_behavior_tree ("execute"), which returns False
\* and leaves main to shut down and exit
NotANode(stage) ==
    /\ sched.pc = "load"
    /\ sched' = CASE stage = "create" ->
                      [sched EXCEPT !.pc = "done", !.tree = "not_a_node",
                                    !.result = "create_failed", !.exit_code = 1]
                  [] stage = "setup" ->
                      [sched EXCEPT !.pc = "done", !.tree = "not_a_node",
                                    !.result = "setup_failed", !.exit_code = 1]
                  [] stage = "execute" ->
                      [sched EXCEPT !.pc = "shutdown", !.tree = "not_a_node",
                                    !.result = "error", !.idx = 1]
    /\ UNCHANGED <<nodes, conn, io, hist>>

\* one round of the loop of setup_behavior_tree; a False result ends main
SetupStep(run_ok) ==
    /\ sched.pc = "setup"
    /\ LET w == NodeSetup(World, sched.order[sched.idx], run_ok)
       IN /\ Commit(w)
          /\ sched' = IF ~w.ok
                      THEN [sched EXCEPT !.pc = "done", !.result = "setup_failed",
                                         !.exit_code = 1]
                      ELSE IF sched.idx = Len(sched.order)
                      THEN [sched EXCEPT !.pc = "loop", !.idx = 0]
                      ELSE [sched EXCEPT !.idx = @ + 1]

\* the setup of a leaf fails after BaseActionNode.setup has succeeded: the
\* construction of its topics or service raises, setup returns False and main
\* exits
SetupTopicsFail ==
    /\ sched.pc = "setup"
    /\ LET n == sched.order[sched.idx]
       IN /\ nodes[n].kind \notin Composites
          /\ Commit(BaseSetup([World EXCEPT !.hist.setup_calls[n] = @ + 1], n, TRUE))
    /\ sched' = [sched EXCEPT !.pc = "done", !.result = "setup_failed",
                              !.exit_code = 1]

\* while tick_count <= max_ticks: one tick too many
LoopConditionOffByOne == sched.tick_count <= MaxTicks

\* while tick_count < max_ticks
LoopCondition == sched.tick_count < MaxTicks

\* the poses at the targets of the tree's GoToPose leaves, in tick order
TargetPoses(ns) ==
    LET ids == SelectSeq([i \in 1..Len(ns) |-> i], LAMBDA n : ns[n].kind = "GoToPose")
    IN [k \in 1..Len(ids) |-> Msg(ns[ids[k]].target_x, ns[ids[k]].target_y, 0)]

\* how far a pose stream that jumps from each target straight to the next has
\* come when a tick begins with the topic at pose: still at target cue, on to
\* the next target, or (-1, for good) neither
NextCue(cue, pose, targets) ==
    IF cue < 0 THEN cue
    ELSE IF (cue = 0 /\ pose = <<>>) \/ (cue >= 1 /\ pose = <<targets[cue]>>) THEN cue
    ELSE IF cue < Len(targets) /\ pose = <<targets[cue + 1]>> THEN cue + 1
    ELSE -1

\* one round of the while loop of execute_behavior_tree up to the sleep;
\* hist.root_trace keeps the root status each tick left, hist.cue follows the
\* pose the topic carries at each tick through the targets
Tick(pen) ==
    /\ sched.pc = "loop"
    /\ LoopCondition
    /\ LET w0 == TickNode(Fresh(World), 1, pen)
           current_status == w0.nodes[1].status
           w == [w0 EXCEPT !.hist.root_trace = Append(@, current_status),
                           !.hist.cue = NextCue(@, io.pose, TargetPoses(nodes))]
       IN /\ Commit(w)
          /\ sched' = [sched EXCEPT
                          !.tick_count = @ + 1,
                          !.last_status = current_status,
                          !.pc = IF current_status \in {"SUCCESS", "FAILURE"}
                                 THEN "shutdown" ELSE "sleep",
                          !.idx = IF current_status \in {"SUCCESS", "FAILURE"}
                                  THEN 1 ELSE 0,
                          !.result = CASE current_status = "SUCCESS" -> "success"
                                       [] current_status = "FAILURE" -> "failure"
                                       [] OTHER -> "none"]

\* time.sleep(tick_period) returns
Wake ==
    /\ sched.pc = "sleep"
    /\ sched' = [sched EXCEPT !.pc = "loop"]
    /\ UNCHANGED <<nodes, conn, io, hist>>

\* KeyboardInterrupt during the sleep, logged, with the loop going on
InterruptLoopGoesOn ==
    /\ sched.pc = "sleep"
    /\ sched' = [sched EXCEPT !.pc = "loop", !.result = "interrupted"]
    /\ UNCHANGED <<nodes, conn, io, hist>>

\* KeyboardInterrupt during the sleep
Interrupt ==
    /\ sched.pc = "sleep"
    /\ sched' = [sched EXCEPT !.pc = "shutdown", !.idx = 1, !.result = "interrupted"]
    /\ UNCHANGED <<nodes, conn, io, hist>>

\* the while condition fails: the tick ceiling is reached
Timeout ==
    /\ sched.pc = "loop"
    /\ ~LoopCondition
    /\ sched' = [sched EXCEPT !.pc = "shutdown", !.idx = 1, !.result = "timeout"]
    /\ UNCHANGED <<nodes, conn, io, hist>>

RECURSIVE ShutdownFrom(_, _, _, _)
RECURSIVE ShutdownFromUntilError(_, _, _, _)
\* the loop of shutdown_behavior_tree ending at the first node whose shutdown
\* met an error
ShutdownFromUntilError(w, order, i, term_raises) ==
    IF i > Len(order) THEN w
    ELSE LET w1 == NodeShutdown(w, order[i], term_raises)
             nd == w1.nodes[order[i]]
         IN IF nd.kind \notin Composites /\ nd.ros_connected THEN w1
            ELSE ShutdownFromUntilError(w1, order, i + 1, term_raises)

\* the loop of shutdown_behavior_tree over the node list from index i on
ShutdownFrom(w, order, i, term_raises) ==
    IF i > Len(order) THEN w
    ELSE ShutdownFrom(NodeShutdown(w, order[i], term_raises), order, i + 1,
                      term_raises)

\* shutdown_behavior_tree(root)
ShutdownTree(term_raises) ==
    /\ sched.pc = "shutdown"
    /\ Commit(ShutdownFrom(World, sched.order, 1, term_raises))
    /\ sched' = [sched EXCEPT !.pc = "exit", !.idx = 0]

\* sys.exit(0) at the end of main whatever execute_behavior_tree returned
ExitZero ==
    /\ sched.pc = "exit"
    /\ sched' = [sched EXCEPT !.pc = "done", !.exit_code = 0]
    /\ UNCHANGED <<nodes, conn, io, hist>>

\* sys.exit at the end of main
Exit ==
    /\ sched.pc = "exit"
    /\ sched' = [sched EXCEPT !.pc = "done",
                              !.exit_code = IF sched.result = "success" THEN 0 ELSE 1]
    /\ UNCHANGED <<nodes, conn, io, hist>>

\* the connection's event loop delivers one /turtle1/pose message
PoseMsg(msg) ==
    /\ sched.pc \in {"setup", "loop", "sleep"}
    /\ conn.started # {}
    /\ conn.terminated = {}
    /\ Commit(Deliver(World, msg))
    /\ UNCHANGED sched

Next ==
    \/ \E t \in Trees : Load(t)
    \/ \E how \in LoadFailures : LoadFail(how)
    \/ \E stage \in {"create", "setup", "execute"} : NotANode(stage)
    \/ \E run_ok \in BOOLEAN : SetupStep(run_ok)
    \/ SetupTopicsFail
    \/ \E pen \in PenOutcomes : Tick(pen)
    \/ Wake
    \/ Interrupt
    \/ Timeout
    \/ \E term_raises \in BOOLEAN : ShutdownTree(term_raises)
    \/ Exit
    \/ \E msg \in MsgsOf(sched.tree) : PoseMsg(msg)

Spec == Init /\ [][Next]_vars

(***************************************************************************)
(* Nodes driven directly, outside main: setup and shutdown called on any   *)
(* node in any order (SpecConn), and one leaf of any type taken through    *)
(* its life cycle by its parent's ticks (SpecLeaf).                        *)
(***************************************************************************)
\* node.setup() on node n
DirectSetup(n, run_ok) ==
    /\ sched.pc \in {"conn", "leaf"}
    /\ sched.ops < (IF sched.pc = "leaf" THEN MaxLeafOps ELSE MaxConnOps)
    /\ run_ok \/ conn.run_failed < MaxRunFail
    /\ Commit(NodeSetup(World, n, run_ok))
    /\ sched' = [sched EXCEPT !.ops = @ + 1]

\* node.shutdown() on node n
DirectShutdown(n, term_raises) ==
    /\ sched.pc \in {"conn", "leaf"}
    /\ sched.ops < (IF sched.pc = "leaf" THEN MaxLeafOps ELSE MaxConnOps)
    /\ Commit(NodeShutdown(World, n, term_raises))
    /\ sched' = [sched EXCEPT !.ops = @ + 1]

ConnNodes ==
    << GoToPoseNew(300, 300, None),
       SetPenNew(255, 0, 0, 3, 0),
       CheckBoundsNew(100, 1000, 100, 1000) >>

InitConn ==
    /\ nodes = ConnNodes
    /\ conn = ConnInit
    /\ io = IoInit
    /\ hist = HistInit(DOMAIN ConnNodes)
    /\ sched = [SchedInit EXCEPT !.pc = "conn"]

NextConn ==
    \/ \E n \in DOMAIN nodes, run_ok \in BOOLEAN : DirectSetup(n, run_ok)
    \/ \E n \in DOMAIN nodes, term_raises \in BOOLEAN : DirectShutdown(n, term_raises)

SpecConn == InitConn /\ [][NextConn]_vars

\* the leaves a test may construct
Leaves ==
    {GoToPoseNew(300, 300, th) : th \in {None, 0}}
    \cup {GoToPoseNew(5, 0, None)}
    \cup {MoveDistanceNew(200, 100), MoveDistanceNew(-200, -50), MoveDistanceNew(0, 100)}
    \cup {SetPenNew(255, 0, 0, 3, 0), SetPenNew(300, -5, 0, 0, 1)}
    \cup {GetPoseNew(k) : k \in Keys}
    \cup {CheckBoundsNew(100, 1000, 100, 1000)}

LeafMsgs ==
    {Msg(300, 300, 0), Msg(305, 300, 0), Msg(500, 300, 0), Msg(50, 300, 0),
     Msg(300, 300, 1571)}

\* further poses for a GoToPose leaf with target (3, 3): straight below the
\* target, short of it by less than the speed limit, exactly at the position
\* tolerance, and at the target with the heading off by exactly and by just
\* under the angle tolerance
GoToPoseMsgs ==
    {Msg(300, 100, 0), Msg(250, 300, 0), Msg(290, 300, 0),
     Msg(300, 300, 100), Msg(300, 300, -99)}

\* the poses fed to a leaf
LeafMsgsOf(nd) ==
    IF nd.kind = "GoToPose" /\ nd.target_x = 300 THEN LeafMsgs \cup GoToPoseMsgs
    ELSE LeafMsgs

InitLeaf ==
    /\ \E leaf \in Leaves : nodes = <<leaf>>
    /\ conn = ConnInit
    /\ io = IoInit
    /\ hist = HistInit({1})
    /\ sched = [SchedInit EXCEPT !.pc = "leaf"]

\* the parent ticks the leaf: Behaviour.tick
LeafTick(pen) ==
    /\ sched.pc = "leaf"
    /\ sched.tick_count < MaxLeafTicks
    /\ Commit(TickNode(Fresh(World), 1, pen))
    /\ sched' = [sched EXCEPT !.tick_count = @ + 1]

\* the parent preempts the leaf: Behaviour.stop(INVALID)
LeafStop ==
    /\ sched.pc = "leaf"
    /\ nodes[1].status # "INVALID"
    /\ Commit(StopNode(Fresh(World), 1))
    /\ UNCHANGED sched

\* the connection's event loop delivers one /turtle1/pose message to the leaf
LeafPose(msg) ==
    /\ sched.pc = "leaf"
    /\ conn.started # {}
    /\ conn.terminated = {}
    /\ nodes[1].pose_sub
    /\ msg \in LeafMsgsOf(nodes[1])
    /\ Commit(Deliver(World, msg))
    /\ UNCHANGED sched

NextLeaf ==
    \/ \E run_ok \in BOOLEAN : DirectSetup(1, run_ok)
    \/ \E term_raises \in BOOLEAN : DirectShutdown(1, term_raises)
    \/ \E pen \in PenOutcomes : LeafTick(pen)
    \/ LeafStop
    \/ \E msg \in LeafMsgs \cup GoToPoseMsgs : LeafPose(msg)

SpecLeaf == InitLeaf /\ [][NextLeaf]_vars

(***************************************************************************)
(* A composite over three leaves, ticked by its parent (SpecComp): a       *)
(* Selector with or without memory, or a Sequence without memory, over a   *)
(* CheckBounds, a GoToPose and a SetPen.                                   *)
(***************************************************************************)
CompRoots ==
    {SelectorNew(TRUE, <<2, 3, 4>>), SelectorNew(FALSE, <<2, 3, 4>>),
     SequenceNew(FALSE, <<2, 3, 4>>)}

CompLeaves ==
    << CheckBoundsNew(100, 400, 100, 1000),
       GoToPoseNew(500, 300, None),
       SetPenNew(255, 0, 0, 3, 0) >>

CompMsgs == {Msg(300, 300, 0), Msg(500, 300, 0), Msg(50, 300, 0)}

InitComp ==
    /\ \E root \in CompRoots : nodes = WithRoot(root, CompLeaves)
    /\ conn = ConnInit
    /\ io = IoInit
    /\ hist = HistInit(1..4)
    /\ sched = [SchedInit EXCEPT !.pc = "comp"]

\* node.setup() on leaf n, before the first tick
CompSetup(n, run_ok) ==
    /\ sched.pc = "comp"
    /\ sched.tick_count = 0
    /\ sched.ops < MaxCompOps
    /\ hist.setup_calls[n] = 0
    /\ run_ok \/ conn.run_failed < MaxRunFail
    /\ Commit(NodeSetup(World, n, run_ok))
    /\ sched' = [sched EXCEPT !.ops = @ + 1]

\* the parent ticks the composite; hist.root_trace keeps the status each tick
\* left it with
CompTick(pen) ==
    /\ sched.pc = "comp"
    /\ sched.tick_count < MaxCompTicks
    /\ LET w == TickNode(Fresh(World), 1, pen)
       IN Commit([w EXCEPT !.hist.root_trace = Append(@, w.nodes[1].status)])
    /\ sched' = [sched EXCEPT !.tick_count = @ + 1]

\* the connection's event loop delivers one /turtle1/pose message
CompPose(msg) ==
    /\ sched.pc = "comp"
    /\ conn.started # {}
    /\ Commit(Deliver(World, msg))
    /\ UNCHANGED sched

NextComp ==
    \/ \E n \in 2..4, run_ok \in BOOLEAN : CompSetup(n, run_ok)
    \/ \E pen \in {"success", "error"} : CompTick(pen)
    \/ \E msg \in CompMsgs : CompPose(msg)

SpecComp == InitComp /\ [][NextComp]_vars

(***************************************************************************)
(* The constructors of the composites taken one statement at a time        *)
(* (SpecBuild): sched holds the arguments and the place in __init__ and    *)
(* _build_patrol or _build_shape, nodes the children added so far.         *)
(***************************************************************************)
\* waypoint tuples: (x, y), (x, y, theta), and two that are neither
WaypointTuples == {<<300, 300>>, <<800, 300, 1570>>, <<800>>, <<300, 800, 0, 0>>}

RECURSIVE WaypointLists(_)
\* the lists of at most n waypoint tuples
WaypointLists(n) ==
    IF n = 0 THEN {<<>>}
    ELSE LET shorter == WaypointLists(n - 1)
         IN shorter \cup {Append(l, t) : l \in shorter, t \in WaypointTuples}

ShapeTypes == {"circle", "square", "triangle", "Square", "CIRCLE", "pentagon", ""}

\* str.lower on the shape names
Lower(shape_type) ==
    CASE shape_type = "Square" -> "square"
      [] shape_type = "CIRCLE" -> "circle"
      [] OTHER -> shape_type

\* the values of segments a circle is asked for: they divide four, so that
\* every angle is a whole number of quarter turns, or are zero or negative
Segments == {-2, -1, 0, 1, 2, 4}

\* math.cos and math.sin of (2 * math.pi * i) / segments for such segments
CosTurn(i, segments) == <<1, 0, -1, 0>>[(((4 * i) \div segments) % 4) + 1]

SinTurn(i, segments) == <<0, 1, 0, -1>>[(((4 * i) \div segments) % 4) + 1]

\* DrawShape._generate_circle_waypoints for segments # 0: one waypoint for
\* each i of range(segments + 1), none when segments + 1 <= 0
CircleWaypoints(segments, size, center_x, center_y) ==
    [k \in 1..(segments + 1) |->
        <<center_x + size * CosTurn(k - 1, segments),
          center_y + size * SinTurn(k - 1, segments)>>]

\* DrawShape._generate_triangle_waypoints; math.sqrt(3) / 2 is 0.866
TriangleWaypoints(size, center_x, center_y) ==
    LET height == (size * 866) \div 1000
    IN << <<center_x, center_y + (2 * height) \div 3>>,
          <<center_x - size \div 2, center_y - height \div 3>>,
          <<center_x + size \div 2, center_y - height \div 3>>,
          <<center_x, center_y + (2 * height) \div 3>> >>

InitBuild ==
    /\ nodes = <<>>
    /\ conn = ConnInit
    /\ io = IoInit
    /\ hist = HistInit({})
    /\ \/ \E waypoints \in WaypointLists(MaxWaypoints), loop \in BOOLEAN :
             sched = [pc |-> "build", class |-> "PatrolWaypoints", at |-> "init",
                      waypoints |-> waypoints, loop |-> loop, i |-> 0,
                      shape_type |-> "", size |-> 0, center_x |-> 0, center_y |-> 0,
                      color |-> <<255, 255, 255>>, width |-> 3, segments |-> 36]
       \/ \E shape_type \in ShapeTypes, size \in {100, 200}, segments \in Segments,
             color \in {<<255, 255, 255>>, <<300, -5, 0>>}, width \in {0, 3} :
             sched = [pc |-> "build", class |-> "DrawShape", at |-> "init",
                      waypoints |-> <<>>, loop |-> FALSE, i |-> 0,
                      shape_type |-> shape_type, size |-> size,
                      center_x |-> 400, center_y |-> 400,
                      color |-> color, width |-> width, segments |-> segments]

\* PatrolWaypoints.__init__ without the test for an empty list
PatrolWaypointsInitUnchecked ==
    /\ sched.pc = "build" /\ sched.class = "PatrolWaypoints" /\ sched.at = "init"
    /\ sched' = [sched EXCEPT !.at = "waypoints", !.i = 1]
    /\ UNCHANGED <<nodes, conn, io, hist>>

\* PatrolWaypoints.__init__ up to the call of _build_patrol
PatrolWaypointsInit ==
    /\ sched.pc = "build" /\ sched.class = "PatrolWaypoints" /\ sched.at = "init"
    /\ sched' = IF sched.waypoints = <<>>
                THEN [sched EXCEPT !.at = "raised"]
                ELSE [sched EXCEPT !.at = "waypoints", !.i = 1]
    /\ UNCHANGED <<nodes, conn, io, hist>>

\* _build_patrol: one round of the loop over the waypoints
BuildPatrolWaypoint ==
    /\ sched.pc = "build" /\ sched.class = "PatrolWaypoints" /\ sched.at = "waypoints"
    /\ sched.i <= Len(sched.waypoints)
    /\ LET waypoint == sched.waypoints[sched.i]
       IN IF Len(waypoint) \in {2, 3}
          THEN /\ nodes' = Append(nodes, WaypointNode(waypoint))
               /\ sched' = [sched EXCEPT !.i = @ + 1]
          ELSE /\ nodes' = nodes
               /\ sched' = [sched EXCEPT !.at = "raised"]
    /\ UNCHANGED <<conn, io, hist>>

\* _build_patrol after the loop: the return to the first waypoint
BuildPatrolLoop ==
    /\ sched.pc = "build" /\ sched.class = "PatrolWaypoints" /\ sched.at = "waypoints"
    /\ sched.i > Len(sched.waypoints)
    /\ nodes' = IF sched.loop /\ Len(sched.waypoints) > 0
                THEN Append(nodes, WaypointNode(sched.waypoints[1]))
                ELSE nodes
    /\ sched' = [sched EXCEPT !.at = "returned"]
    /\ UNCHANGED <<conn, io, hist>>

\* DrawShape.__init__ up to the call of _build_shape
DrawShapeInit ==
    /\ sched.pc = "build" /\ sched.class = "DrawShape" /\ sched.at = "init"
    /\ sched' = [sched EXCEPT !.at = "set_pen", !.shape_type = Lower(@)]
    /\ UNCHANGED <<nodes, conn, io, hist>>

\* _build_shape: the SetPen child
BuildShapePen ==
    /\ sched.pc = "build" /\ sched.class = "DrawShape" /\ sched.at = "set_pen"
    /\ nodes' = Append(nodes, SetPenNew(sched.color[1], sched.color[2], sched.color[3],
                                        sched.width, 0))
    /\ sched' = [sched EXCEPT !.at = "generate"]
    /\ UNCHANGED <<conn, io, hist>>

\* _build_shape: the waypoints of the shape, or ValueError, or, for a circle
\* of zero segments, ZeroDivisionError
BuildShapeWaypoints ==
    /\ sched.pc = "build" /\ sched.class = "DrawShape" /\ sched.at = "generate"
    /\ LET size == sched.size
           x == sched.center_x
           y == sched.center_y
       IN sched' = CASE sched.shape_type = "circle" /\ sched.segments = 0 ->
                           [sched EXCEPT !.at = "raised"]
                     [] sched.shape_type = "circle" /\ sched.segments # 0 ->
                           [sched EXCEPT !.at = "waypoints", !.i = 1,
                                         !.waypoints = CircleWaypoints(sched.segments,
                                                                       size, x, y)]
                     [] sched.shape_type = "square" ->
                           [sched EXCEPT !.at = "waypoints", !.i = 1,
                                         !.waypoints = SquareWaypoints(size, x, y)]
                     [] sched.shape_type = "triangle" ->
                           [sched EXCEPT !.at = "waypoints", !.i = 1,
                                         !.waypoints = TriangleWaypoints(size, x, y)]
                     [] OTHER -> [sched EXCEPT !.at = "raised"]
    /\ UNCHANGED <<nodes, conn, io, hist>>

\* _build_shape: one round of the loop over the waypoints, and its end
BuildShapeGoto ==
    /\ sched.pc = "build" /\ sched.class = "DrawShape" /\ sched.at = "waypoints"
    /\ IF sched.i <= Len(sched.waypoints)
       THEN /\ nodes' = Append(nodes, GoToPoseNew(sched.waypoints[sched.i][1],
                                                  sched.waypoints[sched.i][2], None))
            /\ sched' = [sched EXCEPT !.i = @ + 1]
       ELSE /\ nodes' = nodes
            /\ sched' = [sched EXCEPT !.at = "returned"]
    /\ UNCHANGED <<conn, io, hist>>

NextBuild ==
    \/ PatrolWaypointsInit
    \/ BuildPatrolWaypoint
    \/ BuildPatrolLoop
    \/ DrawShapeInit
    \/ BuildShapePen
    \/ BuildShapeWaypoints
    \/ BuildShapeGoto

SpecBuild == InitBuild /\ [][NextBuild]_vars

(***************************************************************************)
(* execution/ros_connection.py: ROSConnectionManager under any sequence of *)
(* constructions, connect, disconnect, get_ros and is_connected calls      *)
(* (SpecManager).  conn holds the class attributes _instance, _ros and     *)
(* _connected and the handles made; sched.last the last call and what it   *)
(* returned.                                                               *)
(***************************************************************************)
ManagerInit ==
    [instance |-> None, ros |-> None, connected |-> FALSE,
     instances |-> 0, created |-> 0, started |-> {}, terminated |-> {}]

InitManager ==
    /\ nodes = <<>>
    /\ conn = ManagerInit
    /\ io = IoInit
    /\ hist = HistInit({})
    /\ sched = [pc |-> "manager", ops |-> 0, returned |-> {},
                last |-> [op |-> "none", result |-> None]]

\* get_ros
GetRos(c) == IF c.connected THEN c.ros ELSE None

\* is_connected
IsConnected(c) == c.connected

\* ROSConnectionManager(...): __new__ and __init__.  with_args: the call hands
\* over host or port, which __init__ takes and __new__(cls) does not, so that
\* the call raises TypeError (result None) before __new__ has run
ManagerNew(with_args) ==
    /\ sched.pc = "manager"
    /\ sched.ops < MaxManagerOps
    /\ LET c == IF ~with_args /\ conn.instance = None
                THEN [conn EXCEPT !.instances = @ + 1, !.instance = conn.instances + 1]
                ELSE conn
       IN /\ conn' = c
          /\ sched' = IF with_args
                      THEN [sched EXCEPT !.ops = @ + 1,
                                         !.last = [op |-> "new", result |-> None]]
                      ELSE [sched EXCEPT !.ops = @ + 1,
                                         !.returned = @ \cup {c.instance},
                                         !.last = [op |-> "new", result |-> c.instance]]
    /\ UNCHANGED <<nodes, io, hist>>

\* connect; outcome: Ros() raises, Ros.run() raises, or the handle runs
Connect(outcome) ==
    /\ sched.pc = "manager"
    /\ sched.ops < MaxManagerOps
    /\ conn.instance # None
    /\ LET h == conn.created + 1
           c == IF conn.connected /\ conn.ros # None THEN conn
                ELSE CASE outcome = "ros_raises" -> [conn EXCEPT !.connected = FALSE]
                       [] outcome = "run_raises" ->
                             [conn EXCEPT !.created = h, !.ros = h, !.connected = FALSE]
                       [] outcome = "runs" ->
                             [conn EXCEPT !.created = h, !.ros = h,
                                          !.started = @ \cup {h}, !.connected = TRUE]
       IN /\ conn' = c
          /\ sched' = [sched EXCEPT !.ops = @ + 1,
                                    !.last = [op |-> "connect",
                                              result |-> IF conn.connected /\ conn.ros # None
                                                         THEN TRUE
                                                         ELSE outcome = "runs"]]
    /\ UNCHANGED <<nodes, io, hist>>

\* disconnect; term_raises: Ros.terminate() raises
Disconnect(term_raises) ==
    /\ sched.pc = "manager"
    /\ sched.ops < MaxManagerOps
    /\ conn.instance # None
    /\ conn' = IF conn.ros # None /\ conn.connected /\ ~term_raises
               THEN [conn EXCEPT !.terminated = @ \cup {conn.ros}, !.connected = FALSE]
               ELSE conn
    /\ sched' = [sched EXCEPT !.ops = @ + 1,
                              !.last = [op |-> "disconnect", result |-> None]]
    /\ UNCHANGED <<nodes, io, hist>>

\* get_ros() and is_connected(), one after the other
Query ==
    /\ sched.pc = "manager"
    /\ sched.ops < MaxManagerOps
    /\ conn.instance # None
    /\ sched' = [sched EXCEPT !.ops = @ + 1,
                              !.last = [op |-> "query",
                                        result |-> <<GetRos(conn), IsConnected(conn)>>]]
    /\ UNCHANGED <<nodes, conn, io, hist>>

NextManager ==
    \/ \E with_args \in BOOLEAN : ManagerNew(with_args)
    \/ \E outcome \in {"ros_raises", "run_raises", "runs"} : Connect(outcome)
    \/ \E term_raises \in BOOLEAN : Disconnect(term_raises)
    \/ Query

SpecManager == InitManager /\ [][NextManager]_vars

(***************************************************************************)
(* CheckBounds with its feedback callback on the thread of the connection  *)
(* beside the tick (SpecRace), one statement at a time.  sched holds the   *)
(* callback's message and position (msg, cb), the position of the tick     *)
(* (main), the x and y the comparison read (x, y), what update returned    *)
(* (status) and the positions of the messages delivered so far (seen).     *)
(***************************************************************************)
RaceMsgs == {Msg(300, 300, 0), Msg(500, 800, 0), Msg(50, 2000, 0)}

InitRace ==
    /\ nodes = <<CheckBoundsNew(100, 1000, 100, 1000)>>
    /\ conn = ConnInit
    /\ io = IoInit
    /\ hist = HistInit({1})
    /\ sched = [pc |-> "race", cb |-> "idle", msg |-> <<>>, main |-> "idle",
                x |-> None, y |-> None, status |-> "INVALID", seen |-> {},
                deliveries |-> 0, tick_count |-> 0]

\* node.setup()
RaceSetup(run_ok) ==
    /\ sched.pc = "race" /\ sched.main = "idle" /\ sched.tick_count = 0
    /\ hist.setup_calls[1] = 0
    /\ Commit(NodeSetup(World, 1, run_ok))
    /\ UNCHANGED sched

\* the connection's thread calls _pose_callback(message)
RacePose(msg) ==
    /\ sched.pc = "race" /\ sched.cb = "idle"
    /\ nodes[1].pose_sub
    /\ sched.deliveries < MaxRaceMsgs
    /\ sched' = [sched EXCEPT !.cb = "x", !.msg = <<msg>>,
                              !.seen = @ \cup {<<msg.x, msg.y>>},
                              !.deliveries = @ + 1]
    /\ UNCHANGED <<nodes, conn, io, hist>>

\* self.current_x = message["x"]
RaceCallbackX ==
    /\ sched.pc = "race" /\ sched.cb = "x"
    /\ nodes' = [nodes EXCEPT ![1].current_x = sched.msg[1].x]
    /\ sched' = [sched EXCEPT !.cb = "y"]
    /\ UNCHANGED <<conn, io, hist>>

\* self.current_y = message["y"]
RaceCallbackY ==
    /\ sched.pc = "race" /\ sched.cb = "y"
    /\ nodes' = [nodes EXCEPT ![1].current_y = sched.msg[1].y]
    /\ sched' = [sched EXCEPT !.cb = "received"]
    /\ UNCHANGED <<conn, io, hist>>

\* self.pose_received = True, and the callback returns
RaceCallbackReceived ==
    /\ sched.pc = "race" /\ sched.cb = "received"
    /\ nodes' = [nodes EXCEPT ![1].pose_received = TRUE]
    /\ sched' = [sched EXCEPT !.cb = "idle", !.msg = <<>>]
    /\ UNCHANGED <<conn, io, hist>>

\* the parent ticks the node: initialise unless the node is RUNNING
RaceTick ==
    /\ sched.pc = "race" /\ sched.main \in {"idle", "returned"}
    /\ sched.tick_count < MaxRaceTicks
    /\ nodes' = IF nodes[1].status # "RUNNING"
                THEN [nodes EXCEPT ![1] = CheckBoundsInitialise(nodes[1])]
                ELSE nodes
    /\ sched' = [sched EXCEPT !.main = "update", !.tick_count = @ + 1,
                              !.x = None, !.y = None]
    /\ UNCHANGED <<conn, io, hist>>

\* update up to the comparison: if not self.ros_connected, if not
\* self.pose_received
RaceUpdate ==
    /\ sched.pc = "race" /\ sched.main = "update"
    /\ LET status == IF ~nodes[1].ros_connected THEN "FAILURE"
                     ELSE IF ~nodes[1].pose_received THEN "RUNNING"
                     ELSE "none"
       IN IF status = "none"
          THEN /\ sched' = [sched EXCEPT !.main = "compare_x"]
               /\ UNCHANGED nodes
          ELSE /\ sched' = [sched EXCEPT !.main = "returned", !.status = status]
               /\ nodes' = [nodes EXCEPT ![1].status = status]
    /\ UNCHANGED <<conn, io, hist>>

\* self.min_x <= self.current_x <= self.max_x, which ends the comparison when
\* it is false
RaceCompareX ==
    /\ sched.pc = "race" /\ sched.main = "compare_x"
    /\ LET x == nodes[1].current_x
       IN IF nodes[1].min_x <= x /\ x <= nodes[1].max_x
          THEN /\ sched' = [sched EXCEPT !.main = "compare_y", !.x = x]
               /\ UNCHANGED nodes
          ELSE /\ sched' = [sched EXCEPT !.main = "returned", !.x = x,
                                         !.status = "FAILURE"]
               /\ nodes' = [nodes EXCEPT ![1].status = "FAILURE"]
    /\ UNCHANGED <<conn, io, hist>>

\* ... and self.min_y <= self.current_y <= self.max_y; update returns
RaceCompareY ==
    /\ sched.pc = "race" /\ sched.main = "compare_y"
    /\ LET y == nodes[1].current_y
           status == IF nodes[1].min_y <= y /\ y <= nodes[1].max_y THEN "SUCCESS"
                     ELSE "FAILURE"
       IN /\ sched' = [sched EXCEPT !.main = "returned", !.y = y, !.status = status]
          /\ nodes' = [nodes EXCEPT ![1].status = status]
    /\ UNCHANGED <<conn, io, hist>>

NextRace ==
    \/ \E run_ok \in BOOLEAN : RaceSetup(run_ok)
    \/ \E msg \in RaceMsgs : RacePose(msg)
    \/ RaceCallbackX
    \/ RaceCallbackY
    \/ RaceCallbackReceived
    \/ RaceTick
    \/ RaceUpdate
    \/ RaceCompareX
    \/ RaceCompareY

SpecRace == InitRace /\ [][NextRace]_vars

(***************************************************************************)
(* GoToPose._normalize_angle taken one loop round at a time (SpecAngle):   *)
(* io holds the argument, the local variable angle, the loop the call is   *)
(* in and the rounds made so far.                                          *)
(***************************************************************************)
InitAngle ==
    /\ nodes = <<>>
    /\ conn = ConnInit
    /\ hist = HistInit({})
    /\ sched = [SchedInit EXCEPT !.pc = "angle"]
    /\ \E a \in (-MaxAngle)..MaxAngle :
          io = [input |-> a, angle |-> a, loop |-> "down", rounds |-> 0]

\* a round of the first loop that subtracts half a turn only
AngleDownHalfTurn ==
    /\ sched.pc = "angle" /\ io.loop = "down"
    /\ io.angle > Pi
    /\ io' = [io EXCEPT !.angle = @ - Pi, !.rounds = @ + 1]
    /\ UNCHANGED <<nodes, conn, sched, hist>>

\* while angle > math.pi: angle -= 2 * math.pi
AngleDown ==
    /\ sched.pc = "angle" /\ io.loop = "down"
    /\ io.angle > Pi
    /\ io' = [io EXCEPT !.angle = @ - 2 * Pi, !.rounds = @ + 1]
    /\ UNCHANGED <<nodes, conn, sched, hist>>

\* the first loop's condition fails
AngleDownExit ==
    /\ sched.pc = "angle" /\ io.loop = "down"
    /\ ~(io.angle > Pi)
    /\ io' = [io EXCEPT !.loop = "up"]
    /\ UNCHANGED <<nodes, conn, sched, hist>>

\* while angle < -math.pi: angle += 2 * math.pi
AngleUp ==
    /\ sched.pc = "angle" /\ io.loop = "up"
    /\ io.angle < -Pi
    /\ io' = [io EXCEPT !.angle = @ + 2 * Pi, !.rounds = @ + 1]
    /\ UNCHANGED <<nodes, conn, sched, hist>>

\* the second loop's condition fails: return angle
AngleReturn ==
    /\ sched.pc = "angle" /\ io.loop = "up"
    /\ ~(io.angle < -Pi)
    /\ io' = [io EXCEPT !.loop = "returned"]
    /\ UNCHANGED <<nodes, conn, sched, hist>>

NextAngle == AngleDown \/ AngleDownExit \/ AngleUp \/ AngleReturn

SpecAngle == InitAngle /\ [][NextAngle]_vars

(***************************************************************************)
(* SetPen.update taken one statement at a time, with the thread that runs  *)
(* the callbacks of the service call beside it (SpecPen).  sched holds the *)
(* constructor's arguments, the position of update (main), the dictionary  *)
(* result_received (done, success), the position of the callback thread    *)
(* (cb), the time since start_time in sleep periods (elapsed), the rounds  *)
(* of the wait loop, whether the loop ended on the timeout (timed_out) and *)
(* what update returned (status).  sched.late holds, for each earlier call *)
(* of update whose callback had not finished when the next call began, its *)
(* own result_received and the position of its callback (was: where the    *)
(* callback stood when the next call began).                               *)
(***************************************************************************)
PenChannels == {-1, 128, 256}

PenWidths == {-2, 0, 1, 3}

PenInit ==
    [main |-> "idle", done |-> FALSE, success |-> FALSE, cb |-> "none",
     elapsed |-> 0, rounds |-> 0, timed_out |-> FALSE, status |-> "none"]

InitPen ==
    /\ conn = ConnInit
    /\ io = IoInit
    /\ hist = HistInit({1})
    /\ \E r \in PenChannels, g \in {0, 255}, width \in PenWidths, off \in {0, 1} :
          /\ nodes = <<SetPenNew(r, g, 300, width, off)>>
          /\ sched = [pc |-> "pen", args |-> [r |-> r, g |-> g, b |-> 300,
                                              width |-> width, off |-> off],
                      updates |-> 0, pen |-> PenInit, late |-> <<>>]

\* node.setup()
PenSetup(run_ok) ==
    /\ sched.pc = "pen" /\ sched.pen.main = "idle" /\ sched.updates = 0
    /\ hist.setup_calls[1] = 0
    /\ Commit(NodeSetup(World, 1, run_ok))
    /\ UNCHANGED sched

\* the callback of a call has been handed to the service and has not run to
\* its end
Unfinished == {"pending", "in_success", "in_error"}

\* update is called: the readiness check; a new result_received, while the
\* closures of an earlier call keep the dictionary of that call
PenUpdate ==
    /\ sched.pc = "pen" /\ sched.pen.main \in {"idle", "returned"}
    /\ sched.updates < MaxPenUpdates
    /\ sched' = [sched EXCEPT
                    !.updates = @ + 1,
                    !.late = IF sched.pen.cb \in Unfinished
                             THEN Append(@, [cb |-> sched.pen.cb, was |-> sched.pen.cb,
                                             done |-> sched.pen.done,
                                             success |-> sched.pen.success])
                             ELSE @,
                    !.pen = IF nodes[1].ros_connected
                            THEN [PenInit EXCEPT !.main = "call"]
                            ELSE [PenInit EXCEPT !.main = "returned",
                                                 !.status = "FAILURE"]]
    /\ io' = [io EXCEPT !.requests = <<>>]
    /\ UNCHANGED <<nodes, conn, hist>>

\* the request update builds from the stored fields
PenRequest(nd) ==
    [node |-> 1, r |-> nd.r, g |-> nd.g, b |-> nd.b, width |-> nd.width, off |-> nd.off]

\* set_pen_service.call(request, success_callback, error_callback); raises:
\* the call raises and the except clause returns FAILURE
PenCall(raises) ==
    /\ sched.pc = "pen" /\ sched.pen.main = "call"
    /\ IF raises
       THEN /\ sched' = [sched EXCEPT !.pen.main = "returned", !.pen.status = "FAILURE"]
            /\ UNCHANGED io
       ELSE /\ sched' = [sched EXCEPT !.pen.main = "while_done", !.pen.cb = "pending"]
            /\ io' = [io EXCEPT !.requests = Append(@, PenRequest(nodes[1]))]
    /\ UNCHANGED <<nodes, conn, hist>>

\* while not result_received["done"] ...
PenWhileDone ==
    /\ sched.pc = "pen" /\ sched.pen.main = "while_done"
    /\ sched' = [sched EXCEPT !.pen.main = IF sched.pen.done THEN "if_done"
                                           ELSE "while_time"]
    /\ UNCHANGED <<nodes, conn, io, hist>>

\* ... and (time.time() - start_time) < timeout
PenWhileTime ==
    /\ sched.pc = "pen" /\ sched.pen.main = "while_time"
    /\ sched' = IF sched.pen.elapsed < MaxPenWait
                THEN [sched EXCEPT !.pen.main = "sleep"]
                ELSE [sched EXCEPT !.pen.main = "if_done", !.pen.timed_out = TRUE]
    /\ UNCHANGED <<nodes, conn, io, hist>>

\* time.sleep(0.01): at least one period passes
PenSleep ==
    /\ sched.pc = "pen" /\ sched.pen.main = "sleep"
    /\ sched' = [sched EXCEPT !.pen.main = "while_done",
                              !.pen.rounds = @ + 1,
                              !.pen.elapsed = Min(@ + 1, MaxPenWait)]
    /\ UNCHANGED <<nodes, conn, io, hist>>

\* time passes while update is anywhere between the call and its return
PenClock ==
    /\ sched.pc = "pen"
    /\ sched.pen.main \in {"while_done", "while_time", "sleep", "if_done",
                            "if_success", "elif_done"}
    /\ sched.pen.elapsed < MaxPenWait
    /\ sched' = [sched EXCEPT !.pen.elapsed = @ + 1]
    /\ UNCHANGED <<nodes, conn, io, hist>>

\* if result_received["done"] ...
PenIfDone ==
    /\ sched.pc = "pen" /\ sched.pen.main = "if_done"
    /\ sched' = [sched EXCEPT !.pen.main = IF sched.pen.done THEN "if_success"
                                           ELSE "elif_done"]
    /\ UNCHANGED <<nodes, conn, io, hist>>

\* ... and result_received["success"]: return SUCCESS
PenIfSuccess ==
    /\ sched.pc = "pen" /\ sched.pen.main = "if_success"
    /\ sched' = IF sched.pen.success
                THEN [sched EXCEPT !.pen.main = "returned", !.pen.status = "SUCCESS"]
                ELSE [sched EXCEPT !.pen.main = "elif_done"]
    /\ UNCHANGED <<nodes, conn, io, hist>>

\* the last branches of update return RUNNING
PenElifDoneRunning ==
    /\ sched.pc = "pen" /\ sched.pen.main = "elif_done"
    /\ sched' = [sched EXCEPT !.pen.main = "returned", !.pen.status = "RUNNING"]
    /\ UNCHANGED <<nodes, conn, io, hist>>

\* elif result_received["done"]: return FAILURE; else: return FAILURE
PenElifDone ==
    /\ sched.pc = "pen" /\ sched.pen.main = "elif_done"
    /\ sched' = [sched EXCEPT !.pen.main = "returned", !.pen.status = "FAILURE"]
    /\ UNCHANGED <<nodes, conn, io, hist>>

\* success_callback, first statement: result_received["success"] = True
PenSuccessFirst ==
    /\ sched.pc = "pen" /\ sched.pen.cb = "pending"
    /\ sched' = [sched EXCEPT !.pen.cb = "in_success", !.pen.success = TRUE]
    /\ UNCHANGED <<nodes, conn, io, hist>>

\* success_callback, second statement: result_received["done"] = True
PenSuccessSecond ==
    /\ sched.pc = "pen" /\ sched.pen.cb = "in_success"
    /\ sched' = [sched EXCEPT !.pen.cb = "success", !.pen.done = TRUE]
    /\ UNCHANGED <<nodes, conn, io, hist>>

\* error_callback, first statement: result_received["success"] = False
PenErrorFirst ==
    /\ sched.pc = "pen" /\ sched.pen.cb = "pending"
    /\ sched' = [sched EXCEPT !.pen.cb = "in_error", !.pen.success = FALSE]
    /\ UNCHANGED <<nodes, conn, io, hist>>

\* error_callback, second statement: result_received["done"] = True
PenErrorSecond ==
    /\ sched.pc = "pen" /\ sched.pen.cb = "in_error"
    /\ sched' = [sched EXCEPT !.pen.cb = "error", !.pen.done = TRUE]
    /\ UNCHANGED <<nodes, conn, io, hist>>

\* the next statement of the callback of earlier call k, writing to the
\* result_received of the update that is running now
PenLateCallbackShared(k, ok) ==
    /\ sched.pc = "pen" /\ k \in 1..Len(sched.late)
    /\ sched.late[k].cb \in Unfinished
    /\ sched' = CASE sched.late[k].cb = "pending" ->
                      [sched EXCEPT !.late[k].cb = IF ok THEN "in_success" ELSE "in_error",
                                    !.pen.success = ok]
                  [] sched.late[k].cb = "in_success" ->
                      [sched EXCEPT !.late[k].cb = "success", !.pen.done = TRUE]
                  [] sched.late[k].cb = "in_error" ->
                      [sched EXCEPT !.late[k].cb = "error", !.pen.done = TRUE]
    /\ UNCHANGED <<nodes, conn, io, hist>>

\* the next statement of the callback of earlier call k (ok: the service
\* answers with a result, else with an error): success_callback or
\* error_callback on the result_received of the call that defined them
PenLateCallback(k, ok) ==
    /\ sched.pc = "pen" /\ k \in 1..Len(sched.late)
    /\ sched.late[k].cb \in Unfinished
    /\ sched' = CASE sched.late[k].cb = "pending" ->
                      [sched EXCEPT !.late[k].cb = IF ok THEN "in_success" ELSE "in_error",
                                    !.late[k].success = ok]
                  [] sched.late[k].cb = "in_success" ->
                      [sched EXCEPT !.late[k].cb = "success", !.late[k].done = TRUE]
                  [] sched.late[k].cb = "in_error" ->
                      [sched EXCEPT !.late[k].cb = "error", !.late[k].done = TRUE]
    /\ UNCHANGED <<nodes, conn, io, hist>>

NextPen ==
    \/ \E run_ok \in BOOLEAN : PenSetup(run_ok)
    \/ PenUpdate
    \/ \E raises \in BOOLEAN : PenCall(raises)
    \/ PenWhileDone
    \/ PenWhileTime
    \/ PenSleep
    \/ PenClock
    \/ PenIfDone
    \/ PenIfSuccess
    \/ PenElifDone
    \/ PenSuccessFirst
    \/ PenSuccessSecond
    \/ PenErrorFirst
    \/ PenErrorSecond
    \/ \E k \in 1..MaxPenUpdates, ok \in BOOLEAN : PenLateCallback(k, ok)

SpecPen == InitPen /\ [][NextPen]_vars

(***************************************************************************)
(* Properties.                                                             *)
(***************************************************************************)
Terminal == {"SUCCESS", "FAILURE"}

SequenceNodes == {n \in DOMAIN nodes : nodes[n].kind = "Sequence"}

MotionNodes == {n \in DOMAIN nodes : nodes[n].kind \in {"GoToPose", "MoveDistance"}}

\* the first child of sequence s among the nodes a tick visited (0: none)
FirstChildVisited(visited, s) ==
    LET cs == Range(nodes[s].children)
        at == {i \in 1..Len(visited) : visited[i] \in cs}
    IN IF at = {} THEN 0
       ELSE visited[CHOOSE i \in at : \A j \in at : i <= j]

\* C1: every Sequence of the example trees and composites is built with
\* memory: when a tick leaves child k of a Sequence RUNNING, the next tick of
\* that Sequence ticks child k first and no child before k.
C1_MemoryResumesAtRunningChild ==
    [][\A s \in SequenceNodes :
          ( /\ nodes[s].status = "RUNNING"
            /\ sched'.tick_count = sched.tick_count + 1
            /\ s \in Range(io'.visited) )
          => \E k \in 1..Len(nodes[s].children) :
                /\ nodes[nodes[s].children[k]].status = "RUNNING"
                /\ FirstChildVisited(io'.visited, s) = nodes[s].children[k]
                /\ \A j \in 1..(k - 1) :
                      nodes[s].children[j] \notin Range(io'.visited)]_vars

\* a tick resumed the root at a later child while the first child, which had
\* succeeded, was left alone
C1_Witness ==
    /\ sched.tick_count >= 2
    /\ nodes[1].status = "RUNNING"
    /\ io.visited # <<>>
    /\ nodes[1].children[1] \notin Range(io.visited)
    /\ nodes[nodes[1].children[1]].status = "SUCCESS"
    /\ nodes[1].current_child >= 3

\* C2: every activation of a motion node is closed by exactly one terminate
\* whose stop command is the node's last publication, also when the scheduler
\* stops ticking at the ceiling or on interruption with the node RUNNING.
C2_EveryActivationClosedByStop ==
    \A n \in MotionNodes :
       (sched.pc = "done" \/ nodes[n].status # "RUNNING")
       => /\ hist.term_count[n] = hist.init_count[n]
          /\ hist.init_count[n] > 0 => hist.last_pub[n] = <<"terminate", 0, 0>>

\* C3: an update of any leaf that is not connected returns FAILURE and
\* publishes no velocity, sends no service request, writes no blackboard key.
C3_UpdateNotConnectedFails ==
    \A i \in 1..Len(io.updated) :
       ~io.updated[i].connected
       => /\ io.updated[i].status = "FAILURE"
          /\ io.updated[i].published = 0
          /\ io.updated[i].requests = 0
          /\ io.updated[i].bb_writes = 0

\* a motion leaf whose publisher exists was ticked after it lost the connection
C3_Witness ==
    /\ io.updated # <<>>
    /\ ~io.updated[1].connected
    /\ nodes[1].kind \in {"GoToPose", "MoveDistance"}
    /\ nodes[1].cmd_vel_pub
    /\ hist.shutdown_calls[1] > 0

\* the results of a run of main that ended before its loop began
StartFailures == LoadFailures \cup {"setup_failed", "error"}

LoopOver == sched.pc \in {"shutdown", "exit", "done"} /\ sched.result \notin StartFailures

LastRootStatus == hist.root_trace[Len(hist.root_trace)]

AllTicksNonTerminal == \A i \in 1..Len(hist.root_trace) : hist.root_trace[i] \notin Terminal

\* what C4 says of the ticks and of the success and failure reports
TickCeiling ==
    /\ Len(hist.root_trace) = sched.tick_count
    /\ sched.tick_count <= MaxTicks
    /\ \A i \in 1..(Len(hist.root_trace) - 1) : hist.root_trace[i] \notin Terminal
    /\ (hist.root_trace # <<>> /\ LastRootStatus \in Terminal)
       => /\ LoopOver
          /\ sched.result = (IF LastRootStatus = "SUCCESS" THEN "success" ELSE "failure")
    /\ sched.result \in {"success", "failure"}
       => hist.root_trace # <<>> /\ LastRootStatus \in Terminal
    /\ sched.result = "timeout" => LoopOver

C5_OneHandleOneRunLoop ==
    /\ conn.created <= 1
    /\ \A n \in DOMAIN nodes :
          /\ hist.setup_calls[n] > 0 => conn.created = 1 /\ nodes[n].ros = conn.shared_ros
          /\ hist.setup_calls[n] = 0 => nodes[n].ros = None
          /\ nodes[n].ros_connected => conn.run_calls - conn.run_failed = 1
    /\ Cardinality(conn.started) <= 1
    /\ conn.run_calls - conn.run_failed <= 1
    /\ conn.ros_running <=> conn.run_calls - conn.run_failed = 1

\* several setup calls on several nodes, one of them repeated
C5_Witness ==
    /\ \A n \in DOMAIN nodes : hist.setup_calls[n] > 0 /\ nodes[n].ros_connected
    /\ \E n \in DOMAIN nodes : hist.setup_calls[n] > 1
    /\ conn.created = 1

\* C6: shutting the tree down terminates the shared connection once, and not
\* before every node has had its shutdown called.
C6_TerminatedOnceAfterAllNodes ==
    /\ conn.terminate_calls <= 1
    /\ hist.first_terminate_at # <<>>
       => \A n \in DOMAIN nodes : hist.first_terminate_at[1][n] >= 1

\* C7: in a run of main every node has setup called once before the first
\* tick and shutdown called once after the last.
C7_SetupAndShutdownOncePerNode ==
    /\ sched.pc \in {"loop", "sleep", "shutdown", "exit", "done"} /\ LoopOver
       => \A n \in DOMAIN nodes : hist.setup_calls[n] = 1
    /\ sched.pc \in {"loop", "sleep"}
       => \A n \in DOMAIN nodes : hist.setup_calls[n] = 1
    /\ sched.tick_count > 0 /\ sched.pc \in {"loop", "sleep", "shutdown"}
       => \A n \in DOMAIN nodes : hist.shutdown_calls[n] = 0
    /\ sched.pc \in {"exit", "done"} /\ LoopOver
       => \A n \in DOMAIN nodes : hist.shutdown_calls[n] = 1

\* C8: a connected MoveDistance updated before any pose message arrived
\* returns FAILURE.
C8_NoFeedbackFails ==
    \A i \in 1..Len(io.updated) :
       ( /\ nodes[io.updated[i].node].kind = "MoveDistance"
         /\ io.updated[i].connected
         /\ hist.last_msg[io.updated[i].node] = <<>> )
       => io.updated[i].status = "FAILURE"

\* the position a delivered message reports (the constructor's when none came)
Delivered(m) == IF m = <<>> THEN <<0, 0>> ELSE <<m[1].x, m[1].y>>

SquaredDistance(p, q) == (q[1] - p[1]) * (q[1] - p[1]) + (q[2] - p[2]) * (q[2] - p[2])

MoveDistanceNodes == {n \in DOMAIN nodes : nodes[n].kind = "MoveDistance"}

\* C9: the start reference of a MoveDistance is the pose most recently
\* delivered when its current activation was initialised, and a displacement
\* computed in that activation is measured from it.
C9_StartCapturedPerActivation ==
    \A n \in MoveDistanceNodes :
       hist.init_count[n] > 0
       => /\ <<nodes[n].start_x, nodes[n].start_y>> = Delivered(hist.init_msg[n])
          /\ (hist.disp[n] # <<>> /\ hist.disp[n][1].activation = hist.init_count[n])
             => /\ hist.disp[n][1].from = Delivered(hist.init_msg[n])
                /\ hist.disp[n][1].value =
                      Sqrt(SquaredDistance(hist.disp[n][1].from, hist.disp[n][1].to))

\* a second activation measured from a start other than the first one's
C9_Witness ==
    /\ nodes[1].kind = "MoveDistance"
    /\ hist.init_count[1] >= 2
    /\ hist.disp[1] # <<>>
    /\ hist.disp[1][1].activation = hist.init_count[1]
    /\ hist.disp[1][1].from = <<500, 300>>
    /\ hist.disp[1][1].to = <<300, 300>>

\* the velocity commands the updates of the last tick published
UpdateCommands == SelectSeq(io.published, LAMBDA m : m.phase = "update")

PoseOf(m) == IF m = <<>> THEN Msg(0, 0, 0) ELSE m[1]

\* the commands the update of node n published in the last tick
CommandsOf(n) == SelectSeq(io.published, LAMBDA m : m.node = n /\ m.phase = "update")

\* the squared distance from the pose p to the target of node nd
TargetDistance2(nd, p) ==
    (nd.target_x - p.x) * (nd.target_x - p.x) + (nd.target_y - p.y) * (nd.target_y - p.y)

\* gain * error limited to the angular speed range
HeadingCorrection(angle_error) ==
    LET turn == AngularSpeedGain * angle_error
    IN IF turn > MaxAngularSpeed THEN MaxAngularSpeed
       ELSE IF turn < -MaxAngularSpeed THEN -MaxAngularSpeed
       ELSE turn

\* the updates of the last tick made by connected GoToPose nodes
GoToPoseUpdates ==
    {i \in 1..Len(io.updated) :
        nodes[io.updated[i].node].kind = "GoToPose" /\ io.updated[i].connected}

C12_AlignOrSucceed ==
    \A i \in GoToPoseUpdates :
       LET e == io.updated[i]
           nd == nodes[e.node]
           p == PoseOf(e.msg)
           angle_error == NormalizeAngle(nd.target_theta - p.theta)
       IN ( /\ TargetDistance2(nd, p) < nd.tolerance_pos * nd.tolerance_pos
            /\ nd.target_theta # None )
          => /\ Len(CommandsOf(e.node)) = 1
             /\ CommandsOf(e.node)[1].linear = <<0, 0, 0>>
             /\ IF Abs(angle_error) > nd.tolerance_angle
                THEN /\ e.status = "RUNNING"
                     /\ CommandsOf(e.node)[1].angular =
                           <<0, 0, HeadingCorrection(angle_error)>>
                ELSE /\ e.status = "SUCCESS"
                     /\ CommandsOf(e.node)[1].angular = <<0, 0, 0>>

\* C13: when the pose delivered before an activation of a GoToPose is strictly
\* within the position tolerance of the target, and strictly within the angle
\* tolerance if the target has an orientation, the first update of the
\* activation returns SUCCESS and publishes one command, a stop.
C13_AtTargetSucceedsAtOnce ==
    \A i \in GoToPoseUpdates :
       LET e == io.updated[i]
           nd == nodes[e.node]
           p == PoseOf(e.msg)
       IN ( /\ e.fresh
            /\ e.msg # <<>>
            /\ TargetDistance2(nd, p) < nd.tolerance_pos * nd.tolerance_pos
            /\ \/ nd.target_theta = None
               \/ Abs(NormalizeAngle(nd.target_theta - p.theta)) < nd.tolerance_angle )
          => /\ e.status = "SUCCESS"
             /\ Len(CommandsOf(e.node)) = 1
             /\ CommandsOf(e.node)[1].linear = <<0, 0, 0>>
             /\ CommandsOf(e.node)[1].angular = <<0, 0, 0>>

\* a GoToPose with an orientation is activated at its target with the heading
\* just inside the angle tolerance
C13_Witness ==
    /\ GoToPoseUpdates = {1}
    /\ io.updated[1].fresh
    /\ io.updated[1].msg = <<Msg(300, 300, -99)>>
    /\ nodes[1].target_theta = 0
    /\ io.updated[1].status = "SUCCESS"
    /\ Len(CommandsOf(1)) = 1

\* C14: _normalize_angle returns for every angle of the domain, after at most
\* one round per full turn of the argument and one more, and what it returns
\* lies in [-pi, pi] and differs from the argument by a multiple of 2 pi; it
\* is the value the update operators use.
C14_NormalizedAngle ==
    /\ io.rounds <= Abs(io.input) \div (2 * Pi) + 1
    /\ (io.angle - io.input) % (2 * Pi) = 0
    /\ io.loop = "down" => (io.angle <= io.input /\ (io.rounds = 0 \/ io.angle > -Pi))
    /\ io.loop = "up" => io.angle <= Pi
    /\ io.loop = "returned"
       => /\ -Pi <= io.angle /\ io.angle <= Pi
          /\ io.angle = NormalizeAngle(io.input)

\* more than one full turn beyond -pi was normalized in two rounds
C14_Witness ==
    /\ io.loop = "returned"
    /\ io.input < -3 * Pi
    /\ io.rounds = 2
    /\ io.angle > 0

PenReturned == sched.pen.main = "returned"

\* C15: SetPen.update returns SUCCESS only when the success callback of its
\* own request fired before the wait ran into the timeout; whenever the error
\* callback fired or the wait ended on the timeout it returns FAILURE.
C15_SuccessOnlyBeforeTimeout ==
    PenReturned
    => /\ sched.pen.status = "SUCCESS"
          => sched.pen.cb = "success" /\ ~sched.pen.timed_out
       /\ (sched.pen.cb = "error" \/ sched.pen.timed_out)
          => sched.pen.status = "FAILURE"

\* C16: when no callback fires SetPen.update returns FAILURE after at most
\* the rounds the timeout allows, and whatever happens, a raising service
\* call included, it returns SUCCESS or FAILURE, not RUNNING.
C16_NoCallbackFails ==
    /\ sched.pen.rounds <= MaxPenWait
    /\ PenReturned
       => /\ sched.pen.status \in {"SUCCESS", "FAILURE"}
          /\ sched.pen.cb \in {"none", "pending"} => sched.pen.status = "FAILURE"
          /\ (sched.pen.cb = "pending" /\ ~sched.pen.done)
             => sched.pen.timed_out /\ sched.pen.elapsed = MaxPenWait
    /\ ~PenReturned => sched.pen.status = "none"

\* the request went out, no callback fired, the wait ran its full length
C16_Witness ==
    /\ PenReturned
    /\ sched.pen.cb = "pending"
    /\ sched.pen.rounds = MaxPenWait
    /\ sched.pen.timed_out
    /\ sched.pen.status = "FAILURE"

\* a colour channel or a width as SetPen has to store it
Channel(v) == IF v < 0 THEN 0 ELSE IF v > 255 THEN 255 ELSE v

Width(v) == IF v < 1 THEN 1 ELSE v

\* C17: SetPen stores r, g, b clamped into 0..255 and width raised to at
\* least 1, whatever integers it is constructed with, and every request of
\* update carries the stored values.
C17_ClampedAtConstruction ==
    /\ nodes[1].r = Channel(sched.args.r)
    /\ nodes[1].g = Channel(sched.args.g)
    /\ nodes[1].b = Channel(sched.args.b)
    /\ nodes[1].width = Width(sched.args.width)
    /\ nodes[1].off = sched.args.off
    /\ \A i \in 1..Len(io.requests) :
          /\ io.requests[i].r = nodes[1].r /\ io.requests[i].g = nodes[1].g
          /\ io.requests[i].b = nodes[1].b /\ io.requests[i].width = nodes[1].width
          /\ io.requests[i].off = nodes[1].off
          /\ <<io.requests[i]>> = SetPenUpdate(Fresh(World), 1, "success").io.requests

\* a SetPen built with every argument out of range has sent its request
C17_Witness ==
    /\ sched.args.r = 256 /\ sched.args.width = -2
    /\ Len(io.requests) = 1
    /\ io.requests[1].r = 255 /\ io.requests[1].b = 255 /\ io.requests[1].width = 1
    /\ PenReturned
    /\ sched.pen.status = "SUCCESS"

\* the updates of the last tick made by connected nodes of the given kinds
ConnectedUpdates(kinds) ==
    {i \in 1..Len(io.updated) :
        nodes[io.updated[i].node].kind \in kinds /\ io.updated[i].connected}

\* C18: a connected GetPose or CheckBounds returns RUNNING while no pose
\* message has ever been received, and SUCCESS or FAILURE on every update
\* after one has been, in the same or a later activation.
C18_RunningOnlyUntilFirstFeedback ==
    \A i \in ConnectedUpdates({"GetPose", "CheckBounds"}) :
       IF io.updated[i].msg = <<>>
       THEN io.updated[i].status = "RUNNING"
       ELSE io.updated[i].status \in {"SUCCESS", "FAILURE"}

\* the blackboard writes node n made in the last tick
WritesOf(n) == SelectSeq(io.bb_writes, LAMBDA x : x.node = n)

\* the dictionary _pose_callback builds from the message m
PoseDict(m) ==
    [x |-> m.x, y |-> m.y, theta |-> m.theta,
     linear_velocity |-> 0, angular_velocity |-> 0]

\* C19: a GetPose.update that returns SUCCESS writes the blackboard once, the
\* most recently delivered pose under the node's key; one that returns
\* RUNNING or FAILURE writes nothing; no other key is written.
C19_OneWritePerSuccess ==
    \A i \in 1..Len(io.updated) :
       LET e == io.updated[i]
           nd == nodes[e.node]
       IN nd.kind = "GetPose"
          => /\ e.bb_writes = Len(WritesOf(e.node))
             /\ IF e.status = "SUCCESS"
                THEN /\ e.msg # <<>>
                     /\ WritesOf(e.node) = << [node |-> e.node, key |-> nd.blackboard_key,
                                               value |-> PoseDict(e.msg[1])] >>
                     /\ io.blackboard[nd.blackboard_key] = <<PoseDict(e.msg[1])>>
                ELSE WritesOf(e.node) = <<>>
             /\ DOMAIN nodes = {1}
                => \A k \in Keys \ {nd.blackboard_key} : io.blackboard[k] = <<>>

\* a GetPose with a key of its caller's wrote the pose it was sent
C19_Witness ==
    /\ nodes[1].kind = "GetPose"
    /\ nodes[1].blackboard_key = "start_pose"
    /\ io.updated # <<>>
    /\ io.updated[1].status = "SUCCESS"
    /\ io.updated[1].msg = <<Msg(50, 300, 0)>>
    /\ Len(WritesOf(1)) = 1
    /\ io.blackboard["start_pose"] = <<PoseDict(Msg(50, 300, 0))>>

\* C20: a connected CheckBounds that has received a pose returns SUCCESS when
\* the most recently delivered position is inside the rectangle, its border
\* included, and FAILURE when it is not.
C20_InsideIffSuccess ==
    \A i \in ConnectedUpdates({"CheckBounds"}) :
       LET e == io.updated[i]
           nd == nodes[e.node]
       IN e.msg # <<>>
          => e.status = ( IF /\ nd.min_x <= e.msg[1].x /\ e.msg[1].x <= nd.max_x
                             /\ nd.min_y <= e.msg[1].y /\ e.msg[1].y <= nd.max_y
                          THEN "SUCCESS" ELSE "FAILURE" )

(***************************************************************************)
(* Composites.                                                             *)
(***************************************************************************)
\* the results of the leaves the last tick updated, in order
UpdatedStatuses == [i \in 1..Len(io.updated) |-> io.updated[i].status]

\* the leaves the last tick updated, in order
UpdatedNodes == [i \in 1..Len(io.updated) |-> io.updated[i].node]

\* C21: a tick of a Selector ticks its children in order from where it starts
\* (the cursor of a RUNNING Selector with memory, else the first child); every
\* child but the last one ticked returned FAILURE; a SUCCESS (or RUNNING)
\* child is the last one ticked and gives the Selector its status; the
\* Selector returns FAILURE only when the last child was reached and failed.
C21_SelectorFirstSuccessWins ==
    [][( /\ nodes[1].kind = "Selector"
         /\ sched'.tick_count = sched.tick_count + 1 )
       => LET cs == nodes[1].children
              start == IF nodes[1].memory /\ nodes[1].status = "RUNNING"
                       THEN nodes[1].current_child ELSE 1
              count == Len(io'.updated)
              last == io'.updated[count]
          IN /\ count >= 1
             /\ start + count - 1 <= Len(cs)
             /\ \A i \in 1..count : io'.updated[i].node = cs[start + i - 1]
             /\ \A i \in 1..(count - 1) : io'.updated[i].status = "FAILURE"
             /\ nodes'[1].status = last.status
             /\ last.status = "FAILURE" => start + count - 1 = Len(cs)
             /\ nodes'[1].current_child = start + count - 1
             /\ \A j \in (start + count)..Len(cs) :
                   /\ cs[j] \notin Range(io'.visited)
                   /\ hist'.init_count[cs[j]] = hist.init_count[cs[j]]]_vars

\* the first child failed, the second succeeded, the third was not ticked
C21_Witness ==
    /\ nodes[1].kind = "Selector"
    /\ nodes[1].status = "SUCCESS"
    /\ UpdatedNodes = <<2, 3>>
    /\ UpdatedStatuses = <<"FAILURE", "SUCCESS">>
    /\ io.updated[1].connected
    /\ hist.init_count[4] = 0

\* C22: every tick of a Sequence without memory ticks its first child first,
\* whichever child the tick before left RUNNING.
C22_NoMemoryStartsAtFirstChild ==
    [][( /\ nodes[1].kind = "Sequence"
         /\ ~nodes[1].memory
         /\ sched'.tick_count = sched.tick_count + 1 )
       => /\ io'.visited # <<>>
          /\ io'.visited[1] = nodes[1].children[1]
          /\ nodes'[1].status # "SUCCESS"
             => nodes'[1].status =
                   nodes'[nodes[1].children[nodes'[1].current_child]].status]_vars

\* the tick before left the second child RUNNING; this tick began again at the
\* first child, which is RUNNING, and the second child was invalidated
C22_Witness ==
    /\ nodes[1].kind = "Sequence"
    /\ ~nodes[1].memory
    /\ Len(hist.root_trace) >= 3
    /\ UpdatedNodes = <<2>>
    /\ UpdatedStatuses = <<"RUNNING">>
    /\ hist.init_count[3] = 1
    /\ hist.term_count[3] = 1
    /\ nodes[3].status = "INVALID"
    /\ hist.last_pub[3] = <<"terminate", 0, 0>>

(***************************************************************************)
(* The example trees run by main.                                          *)
(***************************************************************************)
\* C23: the DrawSquare tree, fed a pose stream that jumps from each target
\* straight to the next (every tick found the topic at the target of the tick
\* before or at the next one) and a pen service that answers with success, has
\* its root SUCCESS at the sixth tick and at no other.
C23_SquareDoneAtSixthTick ==
    ( /\ sched.tree = "DrawSquare"
      /\ hist.root_trace # <<>>
      /\ LastRootStatus = "SUCCESS"
      /\ hist.cue >= 1 )
    => Len(hist.root_trace) = 6

\* the patrol of the PatrolMission tree and its waypoints
PatrolNodes == {n \in DOMAIN nodes : n >= 4}

\* C24: in the PatrolMission tree no waypoint (nor the patrol) is ticked and
\* no velocity command is published unless GetPose and CheckBounds have both
\* returned SUCCESS; a tick in which CheckBounds returns FAILURE leaves the
\* root FAILURE and has not ticked the patrol.
C24_PatrolGuarded ==
    sched.tree = "PatrolMission"
    => /\ ( \/ \E n \in PatrolNodes :
                  \/ hist.init_count[n] > 0
                  \/ nodes[n].status # "INVALID"
                  \/ hist.last_pub[n] # <<>>
            \/ io.cmd_vel # <<>> )
          => /\ nodes[2].status = "SUCCESS"
             /\ nodes[3].status = "SUCCESS"
             /\ io.blackboard["start_pose"] # <<>>
       /\ \A i \in 1..Len(io.updated) :
             (io.updated[i].node = 3 /\ io.updated[i].status = "FAILURE")
             => /\ nodes[1].status = "FAILURE"
                /\ LastRootStatus = "FAILURE"
                /\ i = Len(io.updated)
                /\ Range(io.visited) \cap PatrolNodes = {}
                /\ \A n \in PatrolNodes : hist.init_count[n] = 0
                /\ io.published = <<>>

\* the pose was read, then the connected CheckBounds found the robot outside
\* the bounds and the mission failed with the patrol untouched
C24_Witness ==
    /\ sched.tree = "PatrolMission"
    /\ io.updated # <<>>
    /\ io.updated[Len(io.updated)].node = 3
    /\ io.updated[Len(io.updated)].status = "FAILURE"
    /\ io.updated[Len(io.updated)].connected
    /\ nodes[2].status = "SUCCESS"
    /\ sched.result = "failure"
    /\ nodes[4].status = "INVALID"

(***************************************************************************)
(* main: exit codes and interruption.                                      *)
(***************************************************************************)
\* C25: main exits with 0 exactly when a tick left the root SUCCESS (and the
\* ticks number at most max_ticks), with 1 in every other case; when the
\* module does not load, has no create_root, create_root raises or returns
\* something that is not a node, or a setup fails, no tick is executed.
C25_ExitCodes ==
    /\ sched.pc = "done"
       => /\ sched.exit_code \in {0, 1}
          /\ sched.tick_count <= MaxTicks
          /\ sched.exit_code = 0
             <=> (hist.root_trace # <<>> /\ LastRootStatus = "SUCCESS")
          /\ sched.exit_code = 0 <=> sched.result = "success"
          /\ sched.result \in {"failure", "timeout"} \cup StartFailures
             => sched.exit_code = 1
    /\ (sched.result \in StartFailures \/ sched.tree = "not_a_node")
       => /\ sched.tick_count = 0
          /\ hist.root_trace = <<>>
          /\ io.updated = <<>> /\ io.visited = <<>>
          /\ \A n \in DOMAIN nodes : hist.init_count[n] = 0 /\ nodes[n].status = "INVALID"

\* the setup of the first leaf failed on the connection: exit code 1, the
\* remaining nodes never set up, no tick
C25_Witness ==
    /\ sched.pc = "done"
    /\ sched.result = "setup_failed"
    /\ sched.exit_code = 1
    /\ sched.tick_count = 0
    /\ conn.run_failed = 1
    /\ hist.setup_calls[1] = 1
    /\ \E n \in DOMAIN nodes : hist.setup_calls[n] = 0

\* the status of every node
Statuses == [n \in DOMAIN nodes |-> nodes[n].status]

\* C26: an interrupt arrives only in the sleep between two ticks; it leaves
\* the nodes, the connection and everything the ticks did as they are and
\* takes main to the shutdown; from then on no tick is executed and nothing
\* the ticks did is undone; the run is reported as interrupted (not as
\* timeout, failure or success) and main exits with 1.
C26_InterruptStopsLoop ==
    /\ [][(sched'.result = "interrupted" /\ sched.result # "interrupted")
           => /\ sched.pc = "sleep"
              /\ sched'.pc = "shutdown"
              /\ sched'.tick_count = sched.tick_count
              /\ UNCHANGED <<nodes, conn, io, hist>>]_vars
    /\ [][sched.result = "interrupted"
           => /\ sched'.result = "interrupted"
              /\ sched'.tick_count = sched.tick_count
              /\ hist'.root_trace = hist.root_trace
              /\ hist'.init_count = hist.init_count
              /\ hist'.term_count = hist.term_count
              /\ io' = io
              /\ Statuses' = Statuses]_vars
    /\ [](sched.result = "interrupted"
           => /\ sched.pc \in {"shutdown", "exit", "done"}
              /\ sched.tick_count \in 1..MaxTicks
              /\ Len(hist.root_trace) = sched.tick_count
              /\ AllTicksNonTerminal
              /\ sched.pc = "done" => sched.exit_code = 1)

\* main has exited after an interrupt in the sleep that followed the second
\* tick; the command the last tick published is still the topic's last
C26_Witness ==
    /\ sched.result = "interrupted"
    /\ sched.pc = "done"
    /\ sched.tick_count = 2
    /\ nodes[1].status = "RUNNING"
    /\ io.cmd_vel # <<>>
    /\ io.published # <<>>

(***************************************************************************)
(* Construction of the composites.                                         *)
(***************************************************************************)
WellFormed(waypoint) == Len(waypoint) \in {2, 3}

\* child is a GoToPose that targets waypoint
Targets(child, waypoint) ==
    /\ child.kind = "GoToPose"
    /\ child.target_x = waypoint[1]
    /\ child.target_y = waypoint[2]
    /\ child.target_theta = (IF Len(waypoint) = 3 THEN waypoint[3] ELSE None)

\* C27: a PatrolWaypoints returned for a non-empty list of well-formed
\* waypoints has one GoToPose child per waypoint, in list order, and with
\* loop one more, last, that targets the first waypoint.
C27_PatrolChildren ==
    ( /\ sched.pc = "build" /\ sched.class = "PatrolWaypoints"
      /\ sched.waypoints # <<>>
      /\ \A i \in 1..Len(sched.waypoints) : WellFormed(sched.waypoints[i]) )
    => /\ sched.at # "raised"
       /\ sched.at = "returned"
          => /\ Len(nodes) = Len(sched.waypoints) + (IF sched.loop THEN 1 ELSE 0)
             /\ \A i \in 1..Len(sched.waypoints) : Targets(nodes[i], sched.waypoints[i])
             /\ sched.loop => Targets(nodes[Len(nodes)], sched.waypoints[1])

\* three waypoints, the first with a theta, and the loop: four children
C27_Witness ==
    /\ sched.pc = "build" /\ sched.class = "PatrolWaypoints"
    /\ sched.at = "returned"
    /\ sched.loop
    /\ Len(sched.waypoints) = 3
    /\ Len(sched.waypoints[1]) = 3
    /\ Len(sched.waypoints[2]) = 2
    /\ Len(nodes) = 4
    /\ nodes[4].target_theta = 1570

\* C28: a DrawShape whose shape name is, in lower case, none of circle, square
\* and triangle raises, and has neither created nor attached a child by then.
C28_UnknownShapeNoChild ==
    ( /\ sched.pc = "build" /\ sched.class = "DrawShape"
      /\ Lower(sched.shape_type) \notin {"circle", "square", "triangle"} )
    => /\ sched.at # "returned"
       /\ nodes = <<>>

\* C29: a PatrolWaypoints is returned only for a non-empty list of well-formed
\* waypoints, and then has a child; an empty list raises before _build_patrol,
\* a waypoint that is neither a pair nor a triple raises when the loop comes
\* to it.
C29_NoEmptyPatrol ==
    (sched.pc = "build" /\ sched.class = "PatrolWaypoints")
    => /\ sched.at = "returned"
          => /\ sched.waypoints # <<>>
             /\ \A i \in 1..Len(sched.waypoints) : WellFormed(sched.waypoints[i])
             /\ Len(nodes) >= 1
       /\ sched.at = "waypoints"
          => /\ sched.waypoints # <<>>
             /\ sched.i = Len(nodes) + 1
             /\ \A i \in 1..(sched.i - 1) : WellFormed(sched.waypoints[i])
       /\ sched.at = "raised"
          => \/ sched.waypoints = <<>> /\ nodes = <<>>
             \/ /\ Len(nodes) < Len(sched.waypoints)
                /\ ~WellFormed(sched.waypoints[Len(nodes) + 1])

\* the second waypoint has four components: ValueError after one child
C29_Witness ==
    /\ sched.pc = "build" /\ sched.class = "PatrolWaypoints"
    /\ sched.at = "raised"
    /\ Len(nodes) = 1
    /\ Len(sched.waypoints) >= 2
    /\ Len(sched.waypoints[2]) = 4

(***************************************************************************)
(* ROSConnectionManager.                                                   *)
(***************************************************************************)
\* C30: every construction returns the one manager, the one the first
\* construction made; at most one handle is started and not terminated, and
\* it is the one held while connected; connect while connected returns True
\* and makes and starts no handle; disconnect while not connected changes
\* nothing; get_ros returns a handle exactly when is_connected is true.
C30_SingleConnection ==
    /\ [](sched.pc = "manager"
           => /\ conn.instances <= 1
              /\ Cardinality(sched.returned) <= 1
              /\ Cardinality(conn.started \ conn.terminated) <= 1
              /\ conn.connected => conn.started \ conn.terminated = {conn.ros}
              /\ ~conn.connected => conn.started \ conn.terminated = {}
              /\ GetRos(conn) # None <=> IsConnected(conn)
              /\ sched.last.op = "query"
                 => (sched.last.result[1] # None <=> sched.last.result[2]))
    /\ [][(sched.pc = "manager" /\ sched'.ops = sched.ops + 1)
           => /\ (sched'.last.op = "connect" /\ conn.connected)
                 => sched'.last.result = TRUE /\ conn' = conn
              /\ (sched'.last.op = "disconnect" /\ ~conn.connected)
                 => conn' = conn
              /\ sched'.last.op = "new"
                 => /\ sched'.last.result # None
                    /\ sched'.last.result = conn'.instance
                    /\ conn.instance # None => sched'.last.result = conn.instance]_vars

(***************************************************************************)
(* Goal inputs and progress state.                                         *)
(***************************************************************************)
\* the goal inputs a leaf is constructed with
GoalOf(nd) ==
    CASE nd.kind = "GoToPose" ->
            <<nd.target_x, nd.target_y, nd.target_theta, nd.tolerance_pos,
              nd.tolerance_angle>>
      [] nd.kind = "MoveDistance" -> <<nd.distance, nd.speed>>
      [] nd.kind = "SetPen" -> <<nd.r, nd.g, nd.b, nd.width, nd.off>>
      [] nd.kind = "GetPose" -> <<nd.blackboard_key>>
      [] nd.kind = "CheckBounds" -> <<nd.min_x, nd.max_x, nd.min_y, nd.max_y>>
      [] OTHER -> <<>>

\* the progress state of a leaf: measured pose, start reference, received flag
ProgressOf(nd) ==
    CASE nd.kind = "GoToPose" -> <<nd.current_x, nd.current_y, nd.current_theta>>
      [] nd.kind = "MoveDistance" ->
            <<nd.current_x, nd.current_y, nd.current_theta, nd.start_x, nd.start_y>>
      [] nd.kind = "GetPose" -> <<nd.current_pose, nd.pose_received>>
      [] nd.kind = "CheckBounds" -> <<nd.current_x, nd.current_y, nd.pose_received>>
      [] OTHER -> <<>>

\* the step is the delivery of one pose message
Delivery ==
    \/ \E msg \in UNION {MsgsOf(t) : t \in Trees} : PoseMsg(msg)
    \/ \E msg \in LeafMsgs \cup GoToPoseMsgs : LeafPose(msg)
    \/ \E msg \in CompMsgs : CompPose(msg)

RotatesInPlace(nd, p) ==
    IF TargetDistance2(nd, p) < nd.tolerance_pos * nd.tolerance_pos
    THEN /\ nd.target_theta # None
         /\ Abs(NormalizeAngle(nd.target_theta - p.theta)) >= nd.tolerance_angle
    ELSE Abs(NormalizeAngle(Atan2(nd.target_y - p.y, nd.target_x - p.x) - p.theta))
            > Pi \div 2

\* C32: every command a GoToPose publishes (from update or from terminate) has
\* 0 <= linear.x <= max_linear_speed, |angular.z| <= max_angular_speed and
\* zero in the four other components, and the command of an update that
\* rotates in place has linear.x = 0.
C32_CommandsWithinLimits ==
    /\ \A k \in 1..Len(io.published) :
          LET c == io.published[k]
          IN nodes[c.node].kind = "GoToPose"
             => /\ 0 <= c.linear[1] /\ c.linear[1] <= MaxLinearSpeed
                /\ Abs(c.angular[3]) <= MaxAngularSpeed
                /\ c.linear[2] = 0 /\ c.linear[3] = 0
                /\ c.angular[1] = 0 /\ c.angular[2] = 0
    /\ \A i \in GoToPoseUpdates :
          LET e == io.updated[i]
          IN RotatesInPlace(nodes[e.node], PoseOf(e.msg))
             => \A k \in 1..Len(CommandsOf(e.node)) :
                   CommandsOf(e.node)[k].linear[1] = 0

\* a GoToPose east of its target and facing away from it turns on the spot at
\* the angular speed limit
C32_Witness ==
    /\ GoToPoseUpdates = {1}
    /\ io.updated[1].msg = <<Msg(500, 300, 0)>>
    /\ RotatesInPlace(nodes[1], PoseOf(io.updated[1].msg))
    /\ Len(CommandsOf(1)) = 1
    /\ CommandsOf(1)[1].linear = <<0, 0, 0>>
    /\ Abs(CommandsOf(1)[1].angular[3]) = MaxAngularSpeed

(***************************************************************************)
(* The bounds check of the patrol mission.                                 *)
(***************************************************************************)
\* the position lies in the rectangle of CheckBounds node cb
WithinBounds(cb, p) ==
    /\ cb.min_x <= p.x /\ p.x <= cb.max_x
    /\ cb.min_y <= p.y /\ p.y <= cb.max_y

\* C33: in the patrol mission no waypoint node publishes a motion command from
\* an update made while the most recently delivered pose lies outside the
\* rectangle of the CheckBounds node.
C33_NoMotionOutsideBounds ==
    sched.tree = "PatrolMission"
    => \A i \in GoToPoseUpdates :
          LET e == io.updated[i]
          IN ( /\ e.msg # <<>>
               /\ ~WithinBounds(nodes[3], e.msg[1]) )
             => \A k \in 1..Len(CommandsOf(e.node)) :
                   /\ CommandsOf(e.node)[k].linear = <<0, 0, 0>>
                   /\ CommandsOf(e.node)[k].angular = <<0, 0, 0>>

(***************************************************************************)
(* The readiness flag and the shared handle.                               *)
(***************************************************************************)
\* C34: whenever ros_connected of a node is true, the handle the node holds
\* has had its run loop started and has not been terminated.
C34_ConnectedMeansRunning ==
    \A n \in DOMAIN nodes :
       (nodes[n].kind \notin Composites /\ nodes[n].ros_connected)
       => /\ nodes[n].ros \in conn.started
          /\ nodes[n].ros \notin conn.terminated

(***************************************************************************)
(* GoToPose and the feedback it has had.                                   *)
(***************************************************************************)
\* C35: an update of a connected GoToPose returns SUCCESS only when a pose
\* message within tolerance_pos of the target has been delivered to the node,
\* and returns RUNNING when no message has been delivered to it yet.
C35_SuccessNeedsFeedback ==
    \A i \in GoToPoseUpdates :
       LET e == io.updated[i]
           nd == nodes[e.node]
       IN /\ e.status = "SUCCESS"
             => /\ e.msg # <<>>
                /\ TargetDistance2(nd, e.msg[1]) < nd.tolerance_pos * nd.tolerance_pos
          /\ e.msg = <<>> => e.status = "RUNNING"

(***************************************************************************)
(* Callbacks of SetPen that fire after their update has returned.          *)
(***************************************************************************)
\* C36: what an update has returned stays as it is whatever fires afterwards;
\* a statement of the callback of an earlier call leaves the state of the
\* running update untouched; and the result_received of an update holds only
\* what the callback of its own request wrote, so that SUCCESS is returned
\* only when that callback was the success callback.
C36_LateCallbackHarmless ==
    /\ [](sched.pc = "pen"
           => /\ sched.pen.done => sched.pen.cb \in {"success", "error"}
              /\ sched.pen.success => sched.pen.cb \in {"in_success", "success"}
              /\ (PenReturned /\ sched.pen.status = "SUCCESS")
                 => sched.pen.cb = "success")
    /\ [][(sched.pc = "pen" /\ sched'.updates = sched.updates)
           => /\ PenReturned
                 => /\ sched'.pen.main = "returned"
                    /\ sched'.pen.status = sched.pen.status
              /\ sched'.late # sched.late => sched'.pen = sched.pen]_vars

\* the first update timed out and returned FAILURE with its callback still
\* to come; the success callback then began during the second update, whose
\* own request got no answer and which returned FAILURE
C36_Witness ==
    /\ sched.pc = "pen"
    /\ sched.updates = 2
    /\ Len(sched.late) = 1
    /\ sched.late[1].was = "pending"
    /\ sched.late[1].cb = "success"
    /\ sched.late[1].done /\ sched.late[1].success
    /\ PenReturned
    /\ sched.pen.cb = "pending"
    /\ ~sched.pen.done /\ ~sched.pen.success
    /\ sched.pen.status = "FAILURE"

(***************************************************************************)
(* The feedback callback beside the tick.                                  *)
(***************************************************************************)
\* C37: the (x, y) that CheckBounds.update compares with the bounds is the
\* position of one delivered pose message.
C37_ComparedPairIsOneMessage ==
    (sched.pc = "race" /\ sched.main = "returned" /\ sched.y # None)
    => <<sched.x, sched.y>> \in sched.seen

(***************************************************************************)
(* A failed setup.                                                         *)
(***************************************************************************)
\* C38: when main has ended on a failed setup, no node after the failing one
\* was set up, no tick was made, every node set up before the failing one was
\* shut down and every handle whose run loop was started was terminated.
C38_FailedSetupCleansUp ==
    (sched.pc = "done" /\ sched.result = "setup_failed" /\ sched.tree \in Trees)
    => /\ \A i \in 1..Len(sched.order) :
             i > sched.idx => hist.setup_calls[sched.order[i]] = 0
       /\ sched.tick_count = 0 /\ hist.root_trace = <<>>
       /\ \A i \in 1..Len(sched.order) :
             i < sched.idx => hist.shutdown_calls[sched.order[i]] > 0
       /\ conn.started \subseteq conn.terminated

(***************************************************************************)
(* shutdown_behavior_tree.                                                 *)
(***************************************************************************)
\* C39: once shutdown_behavior_tree has returned, shutdown has been called on
\* every node of the tree, whether or not the shutdown of an earlier node met
\* an error; and the call always returns to main, which goes on to exit.
C39_ShutdownReachesEveryNode ==
    /\ [](( /\ sched.pc \in {"exit", "done"}
            /\ sched.tree \in Trees
            /\ sched.result \notin StartFailures )
           => \A n \in DOMAIN nodes : hist.shutdown_calls[n] >= 1)
    /\ [][sched.pc = "shutdown" => sched'.pc = "exit"]_vars

\* the handle was terminated by the first leaf, terminate raised in a later
\* leaf (which therefore still counts itself connected), and the nodes after
\* that leaf were shut down all the same
C39_Witness ==
    /\ sched.pc = "exit"
    /\ sched.tree \in Trees
    /\ \E i, j \in 1..Len(sched.order) :
          /\ i < j
          /\ nodes[sched.order[i]].kind \notin Composites
          /\ nodes[sched.order[i]].ros_connected
          /\ hist.shutdown_calls[sched.order[i]] = 1
          /\ hist.shutdown_calls[sched.order[j]] = 1

(***************************************************************************)
(* DrawShape as constructed.                                               *)
(***************************************************************************)
\* C40: a DrawShape that was constructed has as its first child the SetPen of
\* the given colour and width with the pen down, followed by one GoToPose
\* without orientation for each waypoint of the path, in order: 5 for a
\* square, 4 for a triangle, segments + 1 for a circle, the paths of the
\* square and the triangle ending where they start.
C40_DrawShapeChildren ==
    (sched.pc = "build" /\ sched.class = "DrawShape" /\ sched.at = "returned")
    => /\ Len(nodes) >= 1
       /\ nodes[1] = SetPenNew(sched.color[1], sched.color[2], sched.color[3],
                               sched.width, 0)
       /\ nodes[1].off = 0
       /\ Len(nodes) = 1 + Len(sched.waypoints)
       /\ \A k \in 1..Len(sched.waypoints) :
             /\ nodes[k + 1].kind = "GoToPose"
             /\ nodes[k + 1].target_x = sched.waypoints[k][1]
             /\ nodes[k + 1].target_y = sched.waypoints[k][2]
             /\ nodes[k + 1].target_theta = None
       /\ sched.shape_type = "square" => Len(nodes) - 1 = 5
       /\ sched.shape_type = "triangle" => Len(nodes) - 1 = 4
       /\ sched.shape_type = "circle" => Len(nodes) - 1 = sched.segments + 1
       /\ sched.shape_type \in {"square", "triangle"}
          => sched.waypoints[Len(sched.waypoints)] = sched.waypoints[1]

====
